---- MODULE Spec2Model ----
(***************************************************************************)
(* NetSIO hub (fujinet-bridge/netsiohub/hub.py): the SyncRequest slot, the *)
(* host TCP handler thread, the UDP receiver thread, the byte buffer and   *)
(* its monitor thread, the UDP sender thread and the host sender thread,   *)
(* as a state machine.  Each action is one atomic step of one thread: a    *)
(* critical section under a lock, one queue operation, or one wait on an   *)
(* event.                                                                  *)
(***************************************************************************)
EXTENDS Integers, Sequences, FiniteSets, TLC

(***************************************************************************)
(* Bounds of the model.                                                    *)
(***************************************************************************)
\* number of events (host events and data events of the peripherals) in one run
MaxEvents == 3
\* number of events in one run with responses of sampled content
MaxPackEvents == 2
\* the clock stops at this many seconds
MaxTime == 21
\* number of events in one run of the refactored hub
MaxRefEvents == 4

(***************************************************************************)
(* Program constants.                                                      *)
(***************************************************************************)
NETSIO_DATA_BYTE == 1
NETSIO_DATA_BLOCK == 2
NETSIO_DATA_BYTE_SYNC == 9
NETSIO_COMMAND_ON == 17
NETSIO_COMMAND_OFF_SYNC == 24
NETSIO_SYNC_RESPONSE == 129
NETSIO_DEVICE_DISCONNECT == 192
NETSIO_DEVICE_CONNECT == 193
NETSIO_ALIVE_REQUEST == 196
NETSIO_ALIVE_RESPONSE == 197
NETSIO_CREDIT_STATUS == 198
NETSIO_CREDIT_UPDATE == 199
NETSIO_WARM_RESET == 254
NETSIO_COLD_RESET == 255
\* second byte of a SYNC_RESPONSE: no ACK/NAK byte inside
NETSIO_EMPTY_SYNC == 0
\* second byte of a SYNC_RESPONSE: ACK/NAK byte inside
NETSIO_ACK_SYNC == 1
\* the "empty" result of a synchronous host call
ATDEV_EMPTY_SYNC == 0
\* queue.Queue(8) and queue.Queue(16)
HOST_QUEUE_SIZE == 8
DEVICE_QUEUE_SIZE == 16
\* Python's None in SyncRequest.request and SyncRequest.response
None == -1
\* NetInBuffer.BUFFER_SIZE, in bytes
BUFFER_SIZE == 130
\* NetInBuffer.BUFFER_MAX_AGE (0.005 s), in ticks of one millisecond
BUFFER_MAX_AGE == 5
\* the credit granted on registration
DEFAULT_CREDIT == 3
\* the alive interval, in seconds
ALIVE_EXPIRATION == 20

\* Python's None in the refactored NetSIOHub.pending_sio_command, which is a list
\* of one or more bytes otherwise
NoCommand == << >>

NetSIOMsg(id, arg) == [id |-> id, arg |-> arg]
NoMsg == NetSIOMsg(0, <<>>)
\* the None that AtDevThread.stop puts on the host queue
NoneMsg == NetSIOMsg(None, <<>>)

(***************************************************************************)
(* Bit operations on non-negative integers, as Python computes | and <<.   *)
(***************************************************************************)
RECURSIVE BitOr(_, _)
BitOr(a, b) ==
    IF a = 0 THEN b
    ELSE IF b = 0 THEN a
    ELSE (IF (a % 2 = 1) \/ (b % 2 = 1) THEN 1 ELSE 0)
         + 2 * BitOr(a \div 2, b \div 2)

Shl(x, n) == x * (2 ^ n)

\* a packing with the ACK byte and the low size byte in each other's place
PackSyncResponse_swapped(arg) ==
    BitOr(BitOr(BitOr(NETSIO_SYNC_RESPONSE, Shl(arg[4], 8)), Shl(arg[3], 16)),
          Shl(arg[5], 24))

\* hub.py 862-863: NETSIO_SYNC_RESPONSE | arg[2] << 8 | (arg[3] << 16) | (arg[4] << 24)
\* (Python indexes from 0, TLA+ sequences from 1)
PackSyncResponse(arg) ==
    BitOr(BitOr(BitOr(NETSIO_SYNC_RESPONSE, Shl(arg[3], 8)), Shl(arg[4], 16)),
          Shl(arg[5], 24))

\* hub.py 856-863: the value handed to set_response for a matching SYNC_RESPONSE
SyncResult(arg) ==
    IF arg[2] = NETSIO_EMPTY_SYNC THEN ATDEV_EMPTY_SYNC ELSE PackSyncResponse(arg)

\* a set_response that does not compare the serial numbers
SetResponseAccepts_anysn(req, cur_sn, given_sn) == req /= None

\* hub.py 762: the condition under which set_response stores the response
SetResponseAccepts(req, cur_sn, given_sn) == req /= None /\ cur_sn = given_sn

\* a serial number that does not wrap
NextSn_nowrap(s) == s + 1

\* hub.py 755: the next serial number
NextSn(s) == (s + 1) % 256

\* a match that does not look at the pending request
IsMatchingResponse_noreq(msg, req, snap_sn) ==
    msg.id = NETSIO_SYNC_RESPONSE /\ msg.arg[1] = snap_sn

\* hub.py 853-854: a peripheral message is the response to the request of the snapshot
IsMatchingResponse(msg, req, snap_sn) ==
    req /= None /\ msg.id = NETSIO_SYNC_RESPONSE /\ msg.arg[1] = snap_sn

\* a discard of DATA_BYTE only
IsDiscarded_byteonly(msg, req) == req /= None /\ msg.id = NETSIO_DATA_BYTE

\* hub.py 865-867: a DATA_BYTE or DATA_BLOCK that finds a request pending is discarded
IsDiscarded(msg, req) == req /= None /\ msg.id \in {NETSIO_DATA_BYTE, NETSIO_DATA_BLOCK}

\* an unconsumed SYNC_RESPONSE passed on as it came
ReplaceSyncResponse_asis(msg) == msg

\* hub.py 871-877: an unconsumed non-empty SYNC_RESPONSE becomes a DATA_BYTE
\* carrying its ACK/NAK byte
ReplaceSyncResponse(msg) ==
    IF msg.id = NETSIO_SYNC_RESPONSE /\ msg.arg[2] /= NETSIO_EMPTY_SYNC
    THEN NetSIOMsg(NETSIO_DATA_BYTE, <<msg.arg[3]>>)
    ELSE msg

\* netsio.clear_queue: get_nowait() until the queue is empty
clear_queue(q) == <<>>

(***************************************************************************)
(* Inputs.                                                                 *)
(***************************************************************************)
Peripherals == {"p1", "p2"}

\* events the host issues through NetSIOHub.handle_host_msg
HostAsyncMsgs ==
    { NetSIOMsg(NETSIO_COMMAND_ON, <<49>>),
      NetSIOMsg(NETSIO_DATA_BLOCK, <<83, 0, 0>>) }

\* events the host issues through NetSIOHub.handle_host_msg_sync
HostSyncMsgs ==
    { NetSIOMsg(NETSIO_COMMAND_OFF_SYNC, <<83>>),
      NetSIOMsg(NETSIO_DATA_BYTE_SYNC, <<65>>) }

\* the resets the host issues through NetSIOHub.handle_host_msg
HostResets ==
    { NetSIOMsg(NETSIO_COLD_RESET, <<>>), NetSIOMsg(NETSIO_WARM_RESET, <<>>) }

\* a DATA_BLOCK issued through handle_host_msg_sync
HostSyncBlock == NetSIOMsg(NETSIO_DATA_BLOCK, <<83, 0, 0>>)

VARIABLES
    sn, request, response, completed,   \* NetSIOHub.SyncRequest
    host_ready, host_queue,             \* NetSIOHub
    device_queue,                       \* NetSIOManager
    clients, srv_sn,                    \* NetSIOServer
    net,                                \* datagrams broadcast to the peripherals
    h_pc, h_msg, h_sn, h_result,        \* host TCP handler thread
    r_pc, r_client, r_dgram, r_msg, r_sn, r_flush,   \* UDP receiver thread
    data,                               \* NetInBuffer.data
    m_pc, m_msg, t_left,                \* NetInBuffer.buffer_monitor thread
    age,                                \* history: ticks since the first unflushed byte
    s_pc, s_msg,                        \* NetOutThread
    resp_sn, resp_from, h_how, r_how,   \* history: what the last operation did
    count,                              \* events so far
    credit, expire_time,                \* NetSIOClient.credit, .expire_time, by address
    now,                                \* time.time(), in seconds
    ucast,                              \* datagrams sent to one client, by address
    s_exp,                              \* NetOutThread: the list made by expire_clients
    latest,                             \* history: what last happened to an address
    s_skip,                             \* history: skipped as expired, still registered
    pending_sio_command,                \* refactored NetSIOHub.pending_sio_command
    monitor_event                       \* NetInBuffer.monitor_event is set

syncVars == <<sn, request, response, completed, resp_sn>>
hubVars == <<host_ready, host_queue>>
srvVars == <<clients, srv_sn, net>>
clientVars == <<credit, expire_time, now, ucast, latest, s_exp, s_skip>>
hostVars == <<h_pc, h_msg, h_sn, h_result, h_how>>
recvVars == <<r_pc, r_client, r_dgram, r_msg, r_sn, r_flush, r_how>>
bufVars == <<data, m_pc, m_msg, t_left, age>>
sendVars == <<s_pc, s_msg>>
vars == <<sn, request, response, completed, host_ready, host_queue, device_queue,
          clients, srv_sn, net, h_pc, h_msg, h_sn, h_result,
          r_pc, r_client, r_dgram, r_msg, r_sn, r_flush, s_pc, s_msg,
          data, m_pc, m_msg, t_left, age,
          resp_sn, resp_from, h_how, r_how, count,
          credit, expire_time, now, ucast, latest, s_exp, s_skip,
          pending_sio_command, monitor_event>>

\* the state after NetSIOHub, NetSIOManager and NetSIOServer are constructed and
\* the threads are started, with both serial numbers at s and the monitor thread
\* of the buffer at the given place
InitFrom(s, monitor) ==
    /\ sn = s /\ request = None /\ response = None /\ completed = FALSE
    /\ host_ready = FALSE /\ host_queue = <<>>
    /\ device_queue = <<>>
    /\ clients = {} /\ srv_sn = s
    /\ net = <<>>
    /\ h_pc = "detached" /\ h_msg = NoMsg /\ h_sn = None /\ h_result = None
    /\ r_pc = "idle" /\ r_client = "none" /\ r_dgram = NoMsg /\ r_msg = NoMsg
    /\ r_sn = None /\ r_flush = FALSE
    /\ s_pc = "get" /\ s_msg = NoMsg
    /\ data = <<>> /\ m_pc = monitor /\ m_msg = NoMsg /\ t_left = 0 /\ age = 0
    /\ resp_sn = None /\ resp_from = "none" /\ h_how = "none" /\ r_how = "none"
    /\ count = 0
    /\ credit = [c \in Peripherals |-> 0]
    /\ expire_time = [c \in Peripherals |-> 0]
    /\ now = 0
    /\ ucast = [c \in Peripherals |-> <<>>]
    /\ latest = [c \in Peripherals |-> "none"]
    /\ s_exp = {} /\ s_skip = {}
    /\ pending_sio_command = NoCommand
    /\ monitor_event = FALSE

\* the state in which the monitor thread of the buffer has reached its first
\* monitor_condition.wait()
InitAt(s) == InitFrom(s, "wait")

Init == InitAt(0)

(***************************************************************************)
(* Host TCP handler thread: AtDevHandler.handle and the hub methods it     *)
(* calls.  socketserver.TCPServer serves one connection at a time, so      *)
(* there is one such thread.  The locals of a call (h_msg, h_sn) are reset *)
(* when the call returns.                                                  *)
(***************************************************************************)

\* a to_peripheral that does not clear the queue for a reset
to_peripheral_noclear(msg) ==
    /\ Len(device_queue) < DEVICE_QUEUE_SIZE
    /\ device_queue' = Append(device_queue, msg)

\* a to_peripheral that puts the message at the head of the queue
to_peripheral_front(msg) ==
    /\ Len(device_queue) < DEVICE_QUEUE_SIZE
    /\ device_queue' = <<msg>> \o device_queue

\* NetSIOManager.to_peripheral: a reset clears the queue first; put() blocks
\* while the queue is full
to_peripheral(msg) ==
    LET q == IF msg.id \in {NETSIO_COLD_RESET, NETSIO_WARM_RESET}
             THEN clear_queue(device_queue)
             ELSE device_queue
    IN /\ Len(q) < DEVICE_QUEUE_SIZE
       /\ device_queue' = Append(q, msg)

\* AtDevHandler.handle, first part: NetSIOHub.host_connected
HostConnected ==
    /\ h_pc = "detached"
    /\ host_ready' = TRUE
    /\ h_pc' = "idle"
    /\ UNCHANGED <<syncVars, host_queue, device_queue, srvVars, clientVars, h_msg, h_sn,
                   h_result, h_how, recvVars, sendVars, resp_from, count, pending_sio_command, monitor_event, bufVars>>

\* a host_disconnected that leaves the host queue as it is
HostDisconnected_nodrain ==
    /\ h_pc = "idle"
    /\ host_ready' = FALSE
    /\ h_pc' = "stop"
    /\ UNCHANGED <<syncVars, host_queue, device_queue, srvVars, clientVars, h_msg, h_sn,
                   h_result, h_how, recvVars, sendVars, resp_from, count, pending_sio_command, monitor_event, bufVars>>

\* AtDevHandler.handle, finally: NetSIOHub.host_disconnected
HostDisconnected ==
    /\ h_pc = "idle"
    /\ host_ready' = FALSE
    /\ host_queue' = clear_queue(host_queue)
    /\ h_pc' = "stop"
    /\ UNCHANGED <<syncVars, device_queue, srvVars, clientVars, h_msg, h_sn,
                   h_result, h_how, recvVars, sendVars, resp_from, count, pending_sio_command, monitor_event, bufVars>>

\* AtDevHandler.handle, finally: AtDevThread.stop up to join(): the stop flag is
\* set and None is put on the host queue; put() blocks while the queue is full
AtDevThreadStop ==
    /\ h_pc = "stop"
    /\ Len(host_queue) < HOST_QUEUE_SIZE
    /\ host_queue' = Append(host_queue, NoneMsg)
    /\ h_pc' = "join"
    /\ UNCHANGED <<syncVars, host_ready, device_queue, srvVars, clientVars, h_msg, h_sn,
                   h_result, h_how, recvVars, sendVars, resp_from, count, pending_sio_command, monitor_event, bufVars>>

\* the host issues an asynchronous event: NetSIOHub.handle_host_msg is entered
HostAsyncStart(m, budget) ==
    /\ h_pc = "idle"
    /\ count < budget
    /\ count' = count + 1
    /\ UNCHANGED <<pending_sio_command, monitor_event>>
    /\ h_msg' = m
    /\ h_pc' = "async_put"
    /\ UNCHANGED <<syncVars, hubVars, device_queue, srvVars, clientVars, h_sn, h_result,
                   h_how, recvVars, sendVars, resp_from, bufVars>>

\* NetSIOHub.handle_host_msg: device_manager.to_peripheral(msg)
HostAsyncPut ==
    /\ h_pc = "async_put"
    /\ to_peripheral(h_msg)
    /\ h_msg' = NoMsg
    /\ h_pc' = "idle"
    /\ UNCHANGED <<syncVars, hubVars, srvVars, clientVars, h_sn, h_result,
                   h_how, recvVars, sendVars, resp_from, count, pending_sio_command, monitor_event, bufVars>>

\* a set_request that leaves the completion event as it is
set_request_noclear(kind) ==
    /\ sn' = NextSn(sn)
    /\ request' = kind
    /\ UNCHANGED <<response, completed, resp_sn>>

\* SyncRequest.set_request, the section under the lock
set_request(kind) ==
    /\ sn' = NextSn(sn)
    /\ request' = kind
    /\ completed' = FALSE
    /\ UNCHANGED <<response, resp_sn>>

\* the host issues a synchronous event: NetSIOHub.handle_host_msg_sync is entered;
\* a DATA_BLOCK is forwarded without a request, any other event allocates a request:
\* set_request returns self.sn (only this thread writes sn) and the caller appends
\* it to the message argument
HostSyncStart(m, budget) ==
    /\ h_pc = "idle"
    /\ count < budget
    /\ count' = count + 1
    /\ UNCHANGED <<pending_sio_command, monitor_event>>
    /\ IF m.id = NETSIO_DATA_BLOCK
       THEN /\ h_msg' = m
            /\ h_pc' = "syncblk_put"
            /\ UNCHANGED <<syncVars, h_sn>>
       ELSE /\ set_request(m.id)
            /\ h_sn' = sn'
            /\ h_msg' = NetSIOMsg(m.id, Append(m.arg, sn'))
            /\ h_pc' = "clear_queue"
    /\ UNCHANGED <<hubVars, device_queue, srvVars, clientVars, h_result, h_how,
                   recvVars, sendVars, resp_from, bufVars>>

\* handle_host_msg_sync for a DATA_BLOCK: forward it and return ATDEV_EMPTY_SYNC
HostSyncBlockPut ==
    /\ h_pc = "syncblk_put"
    /\ to_peripheral(h_msg)
    /\ h_result' = ATDEV_EMPTY_SYNC
    /\ h_how' = "datablock"
    /\ h_msg' = NoMsg
    /\ h_pc' = "idle"
    /\ UNCHANGED <<syncVars, hubVars, srvVars, clientVars, h_sn, recvVars, sendVars,
                   resp_from, count, pending_sio_command, monitor_event, bufVars>>

\* handle_host_msg_sync: clear_queue(self.host_queue)
HostClearQueue ==
    /\ h_pc = "clear_queue"
    /\ host_queue' = clear_queue(host_queue)
    /\ h_pc' = "connected"
    /\ UNCHANGED <<syncVars, host_ready, device_queue, srvVars, clientVars, h_msg, h_sn,
                   h_result, h_how, recvVars, sendVars, resp_from, count, pending_sio_command, monitor_event, bufVars>>

\* a connected() that always reports a peripheral
connected_always == TRUE

\* NetSIOServer.connected
connected == Cardinality(clients) > 0

\* handle_host_msg_sync: if not self.device_manager.connected()
HostCheckConnected ==
    /\ h_pc = "connected"
    /\ h_pc' = IF connected THEN "forward" ELSE "shortcut"
    /\ UNCHANGED <<syncVars, hubVars, device_queue, srvVars, clientVars, h_msg, h_sn,
                   h_result, h_how, recvVars, sendVars, resp_from, count, pending_sio_command, monitor_event, bufVars>>

\* SyncRequest.set_response, the section under the lock
set_response(value, given_sn) ==
    IF SetResponseAccepts(request, sn, given_sn)
    THEN /\ request' = None
         /\ response' = value
         /\ completed' = TRUE
         /\ resp_sn' = sn
         /\ UNCHANGED sn
    ELSE UNCHANGED syncVars

\* handle_host_msg_sync, no device: self.sync.set_response(ATDEV_EMPTY_SYNC, self.sync.sn)
HostShortcut ==
    /\ h_pc = "shortcut"
    /\ set_response(ATDEV_EMPTY_SYNC, sn)
    /\ resp_from' = "hub"
    /\ h_pc' = "get_response"
    /\ UNCHANGED <<hubVars, device_queue, srvVars, clientVars, h_msg, h_sn, h_result,
                   h_how, recvVars, sendVars, count, pending_sio_command, monitor_event, bufVars>>

\* handle_host_msg_sync, device connected: self.handle_host_msg(msg)
HostForward ==
    /\ h_pc = "forward"
    /\ to_peripheral(h_msg)
    /\ h_pc' = "get_response"
    /\ UNCHANGED <<syncVars, hubVars, srvVars, clientVars, h_msg, h_sn, h_result,
                   h_how, recvVars, sendVars, resp_from, count, pending_sio_command, monitor_event, bufVars>>

\* SyncRequest.get_response: self.completed.wait(timeout) returns True when the
\* event is set, False when the timeout expires with the event not set
HostWait ==
    /\ h_pc = "get_response"
    /\ h_pc' = IF completed THEN "got" ELSE "timedout"
    /\ UNCHANGED <<syncVars, hubVars, device_queue, srvVars, clientVars, h_msg, h_sn,
                   h_result, h_how, recvVars, sendVars, resp_from, count, pending_sio_command, monitor_event, bufVars>>

\* get_response, completed: under the lock clear the request, return the response
HostGot ==
    /\ h_pc = "got"
    /\ request' = None
    /\ h_result' = response
    /\ h_how' = "response"
    /\ h_msg' = NoMsg
    /\ h_sn' = None
    /\ h_pc' = "idle"
    /\ UNCHANGED <<sn, response, completed, resp_sn, hubVars, device_queue,
                   srvVars, clientVars, recvVars, sendVars, resp_from, count, pending_sio_command, monitor_event, bufVars>>

\* a timed out get_response that leaves the request in the slot
HostTimedOut_keep ==
    /\ h_pc = "timedout"
    /\ h_result' = ATDEV_EMPTY_SYNC
    /\ h_how' = "timeout"
    /\ h_msg' = NoMsg
    /\ h_sn' = None
    /\ h_pc' = "idle"
    /\ UNCHANGED <<syncVars, hubVars, device_queue, srvVars, clientVars, recvVars, sendVars,
                   resp_from, count, pending_sio_command, monitor_event, bufVars>>

\* get_response, timed out: under the lock clear the request, return timout_value
HostTimedOut ==
    /\ h_pc = "timedout"
    /\ request' = None
    /\ h_result' = ATDEV_EMPTY_SYNC
    /\ h_how' = "timeout"
    /\ h_msg' = NoMsg
    /\ h_sn' = None
    /\ h_pc' = "idle"
    /\ UNCHANGED <<sn, response, completed, resp_sn, hubVars, device_queue,
                   srvVars, clientVars, recvVars, sendVars, resp_from, count, pending_sio_command, monitor_event, bufVars>>

\* the steps of the host thread inside handle_host_msg_sync
HostSyncStep ==
    \/ HostClearQueue
    \/ HostCheckConnected
    \/ HostShortcut
    \/ HostForward
    \/ HostWait
    \/ HostGot
    \/ HostTimedOut

(***************************************************************************)
(* UDP receiver thread: NetSIOHandler.handle, one datagram at a time       *)
(* (socketserver.UDPServer), and NetSIOHub.handle_device_msg called by it. *)
(* The datagrams modelled here are DEVICE_CONNECT and data events.  The    *)
(* locals r_msg and r_sn of a call are reset when the call returns.        *)
(***************************************************************************)

\* NetSIOClient.expired(t)
expired(c, t) == expire_time[c] < t

\* NetSIOClient.update_credit: the credit the record holds after the call, which
\* stores the new credit only if the one held is at most the threshold
update_credit(cur, new, threshold) == IF cur <= threshold THEN new ELSE cur

\* NetSIOClient.update_credit: the value it returns
stores_credit(cur, threshold) == cur <= threshold

\* NetSIOMsg(NETSIO_CREDIT_UPDATE, credit)
CreditUpdate(n) == NetSIOMsg(NETSIO_CREDIT_UPDATE, <<n>>)

\* an extend that puts the new bytes in front
Extend_front(d, b) == b \o d

\* NetInBuffer.extend: self.data.extend(b)
Extend(d, b) == d \o b

\* a flush message that is always a DATA_BLOCK
FlushMsg_block(d) == NetSIOMsg(NETSIO_DATA_BLOCK, d)

\* NetInBuffer.flush: the message made of the buffered bytes
FlushMsg(d) ==
    IF Len(d) > 1 THEN NetSIOMsg(NETSIO_DATA_BLOCK, d) ELSE NetSIOMsg(NETSIO_DATA_BYTE, d)

\* the first argument byte a peripheral puts in a SYNC_RESPONSE: the serial number
\* of the request it last saw, current or one request old
EchoBytes == {sn, (sn + 255) % 256}

\* SYNC_RESPONSE [sn, kind, ack, size_lo, size_hi] datagrams a registered
\* peripheral sends: with an ACK byte, or the empty response
SyncResponses ==
    { NetSIOMsg(NETSIO_SYNC_RESPONSE, <<b, NETSIO_ACK_SYNC, 65, 0, 0>>) : b \in EchoBytes }
    \cup { NetSIOMsg(NETSIO_SYNC_RESPONSE, <<sn, NETSIO_EMPTY_SYNC, 0, 0, 0>>) }

\* SYNC_RESPONSE datagrams with the current serial number and sampled bytes for
\* kind, ACK byte, low and high size byte (the high byte stays below 128 so that
\* the packed value stays within TLC's integers)
PackResponses ==
    { NetSIOMsg(NETSIO_SYNC_RESPONSE, <<sn, k, a, lo, hi>>) :
        k \in {NETSIO_EMPTY_SYNC, NETSIO_ACK_SYNC}, a \in {0, 65, 255},
        lo \in {0, 255}, hi \in {0, 127} }

\* NetSIOHandler.handle, DEVICE_CONNECT from an address that is not registered:
\* NetSIOServer.register_client makes the record (deadline from now, credit 0),
\* calls update_credit(DEFAULT_CREDIT), sends CREDIT_UPDATE to the client and ends
\* in hub.handle_device_msg(NetSIOMsg(NETSIO_DEVICE_CONNECT), client)
RecvConnect(c) ==
    /\ r_pc = "idle"
    /\ c \notin clients
    /\ clients' = clients \cup {c}
    /\ expire_time' = [expire_time EXCEPT ![c] = now + ALIVE_EXPIRATION]
    /\ credit' = [credit EXCEPT ![c] = update_credit(0, DEFAULT_CREDIT, 0)]
    /\ ucast' = [ucast EXCEPT ![c] = Append(@, CreditUpdate(DEFAULT_CREDIT))]
    /\ latest' = [latest EXCEPT ![c] = "connect"]
    /\ r_client' = c
    /\ r_dgram' = NetSIOMsg(NETSIO_DEVICE_CONNECT, <<>>)
    /\ r_msg' = NetSIOMsg(NETSIO_DEVICE_CONNECT, <<>>)
    /\ r_pc' = "hdm"
    /\ UNCHANGED <<syncVars, hubVars, device_queue, srv_sn, net, hostVars,
                   r_sn, r_flush, r_how, sendVars, resp_from, count, pending_sio_command, monitor_event, bufVars,
                   now, s_exp, s_skip>>

\* NetSIOHandler.handle, DEVICE_CONNECT from a registered address:
\* register_client refreshes the record it finds, calls
\* update_credit(DEFAULT_CREDIT), sends CREDIT_UPDATE and notifies the hub
RecvReconnect(c, budget) ==
    /\ r_pc = "idle"
    /\ count < budget
    /\ c \in clients
    /\ count' = count + 1
    /\ UNCHANGED <<pending_sio_command, monitor_event>>
    /\ expire_time' = [expire_time EXCEPT ![c] = now + ALIVE_EXPIRATION]
    /\ credit' = [credit EXCEPT ![c] = update_credit(@, DEFAULT_CREDIT, 0)]
    /\ ucast' = [ucast EXCEPT ![c] = Append(@, CreditUpdate(DEFAULT_CREDIT))]
    /\ latest' = [latest EXCEPT ![c] = "connect"]
    /\ r_client' = c
    /\ r_dgram' = NetSIOMsg(NETSIO_DEVICE_CONNECT, <<>>)
    /\ r_msg' = NetSIOMsg(NETSIO_DEVICE_CONNECT, <<>>)
    /\ r_pc' = "hdm"
    /\ UNCHANGED <<syncVars, hubVars, device_queue, srvVars, hostVars,
                   r_sn, r_flush, r_how, sendVars, resp_from, bufVars,
                   now, s_exp, s_skip>>

\* NetSIOHandler.handle, DEVICE_DISCONNECT: when the address is registered
\* deregister_client pops the record and reports DEVICE_DISCONNECT to the hub;
\* when it is not, pop raises KeyError and nothing is reported
RecvDisconnect(c, budget) ==
    /\ r_pc = "idle"
    /\ count < budget
    /\ count' = count + 1
    /\ UNCHANGED <<pending_sio_command, monitor_event>>
    /\ clients' = clients \ {c}
    /\ latest' = [latest EXCEPT ![c] = "disconnect"]
    /\ s_skip' = s_skip \ {c}
    /\ r_client' = c
    /\ r_dgram' = NetSIOMsg(NETSIO_DEVICE_DISCONNECT, <<>>)
    /\ IF c \in clients
       THEN /\ r_msg' = NetSIOMsg(NETSIO_DEVICE_DISCONNECT, <<>>)
            /\ r_pc' = "hdm"
       ELSE UNCHANGED <<r_msg, r_pc>>
    /\ UNCHANGED <<syncVars, hubVars, device_queue, srv_sn, net, hostVars,
                   r_sn, r_flush, r_how, sendVars, resp_from, bufVars,
                   credit, expire_time, now, ucast, s_exp>>

\* NetSIOHandler.handle, a data event from a registered client whose deadline has
\* passed: deregister_client(expired=True) pops the record and reports
\* DEVICE_DISCONNECT to the hub; the event itself is dropped
RecvExpired(c, m, budget) ==
    /\ r_pc = "idle"
    /\ count < budget
    /\ c \in clients
    /\ expired(c, now)
    /\ count' = count + 1
    /\ UNCHANGED <<pending_sio_command, monitor_event>>
    /\ clients' = clients \ {c}
    /\ s_skip' = s_skip \ {c}
    /\ r_client' = c
    /\ r_dgram' = m
    /\ r_msg' = NetSIOMsg(NETSIO_DEVICE_DISCONNECT, <<>>)
    /\ r_pc' = "hdm"
    /\ UNCHANGED <<syncVars, hubVars, device_queue, srv_sn, net, hostVars,
                   r_sn, r_flush, r_how, sendVars, resp_from, bufVars,
                   credit, expire_time, now, ucast, latest, s_exp>>

\* NetSIOHandler.handle, ALIVE_REQUEST from a registered address: the record is
\* refreshed, update_credit(msg.arg[0]) is called if there is a payload, and
\* ALIVE_RESPONSE is sent; whether the deadline has passed is not looked at
RecvAlive(c, arg, budget) ==
    /\ r_pc = "idle"
    /\ count < budget
    /\ c \in clients
    /\ count' = count + 1
    /\ UNCHANGED <<pending_sio_command, monitor_event>>
    /\ expire_time' = [expire_time EXCEPT ![c] = now + ALIVE_EXPIRATION]
    /\ credit' = IF Len(arg) > 0
                 THEN [credit EXCEPT ![c] = update_credit(@, arg[1], 0)]
                 ELSE credit
    /\ ucast' = [ucast EXCEPT ![c] = Append(@, NetSIOMsg(NETSIO_ALIVE_RESPONSE, <<>>))]
    /\ r_client' = c
    /\ r_dgram' = NetSIOMsg(NETSIO_ALIVE_REQUEST, arg)
    /\ UNCHANGED <<syncVars, hubVars, device_queue, srvVars, hostVars,
                   r_pc, r_msg, r_sn, r_flush, r_how, sendVars, resp_from, bufVars,
                   now, latest, s_exp, s_skip>>

\* NetSIOHandler.handle, CREDIT_STATUS with a payload: from a registered address,
\* update_credit(msg.arg[0], 10), then credit = DEFAULT_CREDIT - qsize() and, if
\* credit >= 2 and update_credit(credit) stores it, CREDIT_UPDATE is sent; from
\* any other address get_client returns None and nothing is done
RecvCreditStatus(c, b, budget) ==
    /\ r_pc = "idle"
    /\ count < budget
    /\ count' = count + 1
    /\ UNCHANGED <<pending_sio_command, monitor_event>>
    /\ LET announced == update_credit(credit[c], b, 10)
           room == DEFAULT_CREDIT - Len(host_queue)
       IN IF c \notin clients
          THEN UNCHANGED <<credit, ucast>>
          ELSE IF room >= 2 /\ stores_credit(announced, 0)
          THEN /\ credit' = [credit EXCEPT ![c] = update_credit(announced, room, 0)]
               /\ ucast' = [ucast EXCEPT ![c] = Append(@, CreditUpdate(room))]
          ELSE /\ credit' = [credit EXCEPT ![c] = announced]
               /\ UNCHANGED ucast
    /\ r_client' = c
    /\ r_dgram' = NetSIOMsg(NETSIO_CREDIT_STATUS, <<b>>)
    /\ UNCHANGED <<syncVars, hubVars, device_queue, srvVars, hostVars,
                   r_pc, r_msg, r_sn, r_flush, r_how, sendVars, resp_from, bufVars,
                   expire_time, now, latest, s_exp, s_skip>>

\* NetSIOHandler.handle, a data event other than DATA_BYTE from a registered
\* client whose deadline has not passed: client.refresh(), inbuffer.flush() takes the buffered bytes under the buffer's lock and
\* calls hub.handle_device_msg with the message made of them, if there are any;
\* then hub.handle_device_msg(msg, client)
RecvData(c, m, budget) ==
    /\ r_pc = "idle"
    /\ count < budget
    /\ c \in clients
    /\ ~expired(c, now)
    /\ count' = count + 1
    /\ UNCHANGED <<pending_sio_command, monitor_event>>
    /\ expire_time' = [expire_time EXCEPT ![c] = now + ALIVE_EXPIRATION]
    /\ r_client' = c
    /\ r_dgram' = m
    /\ IF data = <<>>
       THEN /\ r_msg' = m
            /\ r_flush' = FALSE
            /\ UNCHANGED <<data, age>>
       ELSE /\ r_msg' = FlushMsg(data)
            /\ r_flush' = TRUE
            /\ data' = <<>>
            /\ age' = 0
    /\ r_pc' = "hdm"
    /\ UNCHANGED <<syncVars, hubVars, device_queue, srvVars, hostVars,
                   r_sn, r_how, sendVars, resp_from, m_pc, m_msg, t_left,
                   credit, now, ucast, latest, s_exp, s_skip>>

\* NetSIOHandler.handle, a DATA_BYTE from a registered client whose deadline has
\* not passed: client.refresh(), inbuffer.extend, the section under the buffer's
\* lock, and the choice between flush and set_delay
RecvByte(c, b, budget) ==
    /\ r_pc = "idle"
    /\ count < budget
    /\ c \in clients
    /\ ~expired(c, now)
    /\ count' = count + 1
    /\ UNCHANGED <<pending_sio_command, monitor_event>>
    /\ expire_time' = [expire_time EXCEPT ![c] = now + ALIVE_EXPIRATION]
    /\ r_client' = c
    /\ r_dgram' = NetSIOMsg(NETSIO_DATA_BYTE, <<b>>)
    /\ data' = Extend(data, <<b>>)
    /\ age' = IF data = <<>> THEN 0 ELSE age
    /\ r_pc' = IF Len(data') >= BUFFER_SIZE THEN "flush" ELSE "set_delay"
    /\ UNCHANGED <<syncVars, hubVars, device_queue, srvVars, hostVars,
                   r_msg, r_sn, r_flush, r_how, sendVars, resp_from,
                   m_pc, m_msg, t_left,
                   credit, now, ucast, latest, s_exp, s_skip>>

\* NetInBuffer.extend, the buffer is full: self.flush(), which takes the buffered
\* bytes under the lock and calls hub.handle_device_msg with the message
RecvFlush ==
    /\ r_pc = "flush"
    /\ IF data = <<>>
       THEN /\ r_pc' = "idle"
            /\ UNCHANGED <<r_msg, r_flush, data, age>>
       ELSE /\ r_msg' = FlushMsg(data)
            /\ r_flush' = TRUE
            /\ data' = <<>>
            /\ age' = 0
            /\ r_pc' = "hdm"
    /\ UNCHANGED <<syncVars, hubVars, device_queue, srvVars, clientVars, hostVars,
                   r_client, r_dgram, r_sn, r_how, sendVars, resp_from,
                   m_pc, m_msg, t_left, count, pending_sio_command, monitor_event>>

\* NetInBuffer.extend, the buffer is not full: self.set_delay(BUFFER_MAX_AGE).
\* The monitor thread holds monitor_condition except while it waits on it, so the
\* caller gets it only then; it stores the timeout, notifies the monitor and
\* waits on monitor_event until the monitor has taken the new timeout and waits
\* with it
RecvSetDelay ==
    /\ r_pc = "set_delay"
    /\ m_pc \in {"wait", "armed"}
    /\ m_pc' = "armed"
    /\ t_left' = BUFFER_MAX_AGE
    /\ r_pc' = "idle"
    /\ UNCHANGED <<syncVars, hubVars, device_queue, srvVars, clientVars, hostVars,
                   r_client, r_dgram, r_msg, r_sn, r_flush, r_how, sendVars,
                   resp_from, data, m_msg, age, count, pending_sio_command, monitor_event>>

\* handle_device_msg returns; r_how, r_client and r_dgram keep what the call did,
\* which datagram it handled and whose.  When the call was the one inside
\* inbuffer.flush() ahead of a data event, NetSIOHandler.handle goes on to
\* hub.handle_device_msg(msg, client) with the event itself
HdmReturn(how) ==
    /\ r_how' = how
    /\ UNCHANGED <<r_client, r_dgram>>
    /\ r_sn' = None
    /\ r_flush' = FALSE
    /\ IF r_flush /\ r_dgram.id /= NETSIO_DATA_BYTE
       THEN r_pc' = "hdm" /\ r_msg' = r_dgram
       ELSE r_pc' = "idle" /\ r_msg' = NoMsg

\* handle_device_msg: if not self.host_ready.is_set(): return
HdmHostReady ==
    /\ r_pc = "hdm"
    /\ IF host_ready
       THEN /\ r_pc' = "check_request"
            /\ UNCHANGED <<r_how, r_client, r_dgram, r_msg, r_sn, r_flush>>
       ELSE HdmReturn("nohost")
    /\ UNCHANGED <<syncVars, hubVars, device_queue, srvVars, clientVars, hostVars,
                   sendVars, resp_from, count, pending_sio_command, monitor_event, bufVars>>

\* handle_device_msg: req, sn = self.sync.check_request(), and the branches on the
\* snapshot: the matching response goes to set_response, a DATA_BYTE or DATA_BLOCK
\* during a request is discarded, everything else goes to the host queue, a
\* non-empty SYNC_RESPONSE as a DATA_BYTE
HdmCheckRequest ==
    /\ r_pc = "check_request"
    /\ IF IsMatchingResponse(r_msg, request, sn)
       THEN /\ r_pc' = "set_response"
            /\ r_sn' = sn
            /\ UNCHANGED <<r_client, r_dgram, r_msg, r_flush, r_how>>
       ELSE IF IsDiscarded(r_msg, request)
       THEN HdmReturn("discarded")
       ELSE /\ r_pc' = "put"
            /\ r_msg' = ReplaceSyncResponse(r_msg)
            /\ UNCHANGED <<r_client, r_dgram, r_sn, r_flush, r_how>>
    /\ UNCHANGED <<syncVars, hubVars, device_queue, srvVars, clientVars, hostVars,
                   sendVars, resp_from, count, pending_sio_command, monitor_event, bufVars>>

\* handle_device_msg: self.sync.set_response(..., sn) with the snapshot's sn
HdmSetResponse ==
    /\ r_pc = "set_response"
    /\ set_response(SyncResult(r_msg.arg), r_sn)
    /\ resp_from' = IF SetResponseAccepts(request, sn, r_sn) THEN r_client ELSE resp_from
    /\ HdmReturn(IF SetResponseAccepts(request, sn, r_sn) THEN "accepted" ELSE "dropped")
    /\ UNCHANGED <<hubVars, device_queue, srvVars, clientVars, hostVars, sendVars, count, pending_sio_command, monitor_event, bufVars>>

\* handle_device_msg: self.host_queue.put(msg), which blocks while the queue is full
HdmPut ==
    /\ r_pc = "put"
    /\ Len(host_queue) < HOST_QUEUE_SIZE
    /\ host_queue' = Append(host_queue, r_msg)
    /\ HdmReturn("queued")
    /\ UNCHANGED <<syncVars, host_ready, device_queue, srvVars, clientVars, hostVars,
                   sendVars, resp_from, count, pending_sio_command, monitor_event, bufVars>>

\* the steps of the receiver thread inside handle_device_msg
RecvStep ==
    \/ HdmHostReady
    \/ HdmCheckRequest
    \/ HdmSetResponse
    \/ HdmPut

(***************************************************************************)
(* Buffer monitor thread: NetInBuffer.buffer_monitor, which waits on       *)
(* monitor_condition, without a timeout until set_delay gives it one, and  *)
(* calls flush() when the timeout passes with no new set_delay.  Time is   *)
(* counted in ticks of one millisecond; the steps of the receiver and of   *)
(* the monitor take no time.                                               *)
(***************************************************************************)

\* one millisecond passes while the monitor waits with a timeout and the receiver
\* waits for a datagram
Tick ==
    /\ r_pc = "idle"
    /\ m_pc = "armed"
    /\ t_left > 0
    /\ t_left' = t_left - 1
    /\ age' = IF data /= <<>> THEN age + 1 ELSE age
    /\ UNCHANGED <<syncVars, hubVars, device_queue, srvVars, clientVars, hostVars, recvVars,
                   sendVars, resp_from, data, m_pc, m_msg, count, pending_sio_command, monitor_event>>

\* buffer_monitor: monitor_condition.wait(tmout) returns False, self.flush() takes
\* the buffered bytes under the buffer's lock and calls hub.handle_device_msg with
\* the message made of them, if there are any
MonExpire ==
    /\ m_pc = "armed"
    /\ t_left = 0
    /\ IF data = <<>>
       THEN /\ m_pc' = "wait"
            /\ UNCHANGED <<m_msg, data, age>>
       ELSE /\ m_msg' = FlushMsg(data)
            /\ data' = <<>>
            /\ age' = 0
            /\ m_pc' = "hdm"
    /\ UNCHANGED <<syncVars, hubVars, device_queue, srvVars, clientVars, hostVars, recvVars,
                   sendVars, resp_from, t_left, count, pending_sio_command, monitor_event>>

\* handle_device_msg in the monitor thread: if not self.host_ready.is_set(): return
MonHostReady ==
    /\ m_pc = "hdm"
    /\ IF host_ready
       THEN m_pc' = "check_request" /\ UNCHANGED m_msg
       ELSE m_pc' = "wait" /\ m_msg' = NoMsg
    /\ UNCHANGED <<syncVars, hubVars, device_queue, srvVars, clientVars, hostVars, recvVars,
                   sendVars, resp_from, data, t_left, age, count, pending_sio_command, monitor_event>>

\* handle_device_msg in the monitor thread: check_request and the branches on the
\* snapshot; the message is a DATA_BYTE or a DATA_BLOCK
MonCheckRequest ==
    /\ m_pc = "check_request"
    /\ IF IsDiscarded(m_msg, request)
       THEN m_pc' = "wait" /\ m_msg' = NoMsg
       ELSE m_pc' = "put" /\ UNCHANGED m_msg
    /\ UNCHANGED <<syncVars, hubVars, device_queue, srvVars, clientVars, hostVars, recvVars,
                   sendVars, resp_from, data, t_left, age, count, pending_sio_command, monitor_event>>

\* handle_device_msg in the monitor thread: self.host_queue.put(msg), which blocks
\* while the queue is full; flush() returns and the monitor waits for the next
\* set_delay
MonPut ==
    /\ m_pc = "put"
    /\ Len(host_queue) < HOST_QUEUE_SIZE
    /\ host_queue' = Append(host_queue, m_msg)
    /\ m_pc' = "wait"
    /\ m_msg' = NoMsg
    /\ UNCHANGED <<syncVars, host_ready, device_queue, srvVars, clientVars, hostVars, recvVars,
                   sendVars, resp_from, data, t_left, age, count, pending_sio_command, monitor_event>>

\* the steps of the monitor thread
MonStep ==
    \/ MonExpire
    \/ MonHostReady
    \/ MonCheckRequest
    \/ MonPut

(***************************************************************************)
(* The handshake of NetInBuffer.set_delay with buffer_monitor, step by     *)
(* step.  The monitor thread holds monitor_condition from its start except *)
(* while it is inside wait(); set_delay takes it for its critical section, *)
(* then waits on monitor_event outside it.                                 *)
(***************************************************************************)

\* buffer_monitor, started by __init__: monitor_condition.acquire() and the first
\* monitor_condition.wait(), which releases the condition
MonitorStart ==
    /\ m_pc = "start"
    /\ m_pc' = "wait"
    /\ UNCHANGED <<syncVars, hubVars, device_queue, srvVars, clientVars, hostVars,
                   recvVars, sendVars, resp_from, data, m_msg, t_left, age,
                   count, pending_sio_command, monitor_event>>

\* set_delay, the section under monitor_condition, which is free while the monitor
\* has not acquired it yet, waits, or has timed out and not yet re-acquired it:
\* store tmout, clear monitor_event, notify.  notify() wakes a thread inside
\* wait() and does nothing when there is none
SetDelayNotify ==
    /\ r_pc = "set_delay"
    /\ m_pc \in {"start", "wait", "armed", "expired"}
    /\ monitor_event' = FALSE
    /\ m_pc' = IF m_pc \in {"wait", "armed"} THEN "notified" ELSE m_pc
    /\ r_pc' = "event_wait"
    /\ UNCHANGED <<syncVars, hubVars, device_queue, srvVars, clientVars, hostVars,
                   r_client, r_dgram, r_msg, r_sn, r_flush, r_how, sendVars,
                   resp_from, data, m_msg, t_left, age, count,
                   pending_sio_command>>

\* set_delay, after the section: monitor_event.wait() returns once the event is set
SetDelayReturn ==
    /\ r_pc = "event_wait"
    /\ monitor_event
    /\ r_pc' = "idle"
    /\ UNCHANGED <<syncVars, hubVars, device_queue, srvVars, clientVars, hostVars,
                   r_client, r_dgram, r_msg, r_sn, r_flush, r_how, sendVars,
                   resp_from, bufVars, count, pending_sio_command,
                   monitor_event>>

\* buffer_monitor, notified: wait() returns with the condition held, the monitor
\* reads tmout, sets monitor_event and waits with the new timeout
MonitorWake ==
    /\ m_pc = "notified"
    /\ r_pc /= "set_delay"
    /\ t_left' = BUFFER_MAX_AGE
    /\ monitor_event' = TRUE
    /\ m_pc' = "armed"
    /\ UNCHANGED <<syncVars, hubVars, device_queue, srvVars, clientVars, hostVars,
                   recvVars, sendVars, resp_from, data, m_msg, age, count,
                   pending_sio_command>>

\* buffer_monitor: the timeout of wait(tmout) passes; the thread has still to
\* take the condition again
MonitorTimeout ==
    /\ m_pc = "armed"
    /\ t_left = 0
    /\ m_pc' = "expired"
    /\ UNCHANGED <<syncVars, hubVars, device_queue, srvVars, clientVars, hostVars,
                   recvVars, sendVars, resp_from, data, m_msg, t_left, age,
                   count, pending_sio_command, monitor_event>>

\* buffer_monitor, timed out: wait(tmout) returns False with the condition held,
\* monitor_event.set(), then self.flush() takes the buffered bytes and calls
\* hub.handle_device_msg with their message, all with the condition held
MonitorExpired ==
    /\ m_pc = "expired"
    /\ monitor_event' = TRUE
    /\ IF data = <<>>
       THEN /\ m_pc' = "wait"
            /\ UNCHANGED <<m_msg, data, age>>
       ELSE /\ m_msg' = FlushMsg(data)
            /\ data' = <<>>
            /\ age' = 0
            /\ m_pc' = "hdm"
    /\ UNCHANGED <<syncVars, hubVars, device_queue, srvVars, clientVars, hostVars,
                   recvVars, sendVars, resp_from, t_left, count,
                   pending_sio_command>>

\* one step of the receiver inside set_delay
SetDelayStep == SetDelayNotify \/ SetDelayReturn

\* one step of the monitor thread, with the handshake step by step
MonitorStep ==
    \/ MonitorStart
    \/ MonitorWake
    \/ MonitorTimeout
    \/ MonitorExpired
    \/ MonHostReady
    \/ MonCheckRequest
    \/ MonPut

(***************************************************************************)
(* UDP sender thread: NetOutThread.run and NetSIOServer.send_to_all.       *)
(***************************************************************************)

\* NetOutThread.run: msg = self.queue.get()
SenderGet ==
    /\ s_pc = "get"
    /\ device_queue /= <<>>
    /\ s_msg' = Head(device_queue)
    /\ device_queue' = Tail(device_queue)
    /\ s_pc' = "send"
    /\ UNCHANGED <<syncVars, hubVars, srvVars, clientVars, hostVars, recvVars, resp_from, count, pending_sio_command, monitor_event, bufVars>>

\* send_to_all: msg.arg.append(self.sn), then send_to_client packs the datagram
\* struct.pack('B', msg.id) + msg.arg
Datagram(msg) == NetSIOMsg(msg.id, Append(msg.arg, srv_sn))

\* NetSIOServer.credit_clients, reached through NetSIOManager.credit_clients and
\* NetSIOHub.credit_clients: with credit = DEFAULT_CREDIT - qsize() at least 2,
\* every client whose update_credit(credit) stores it is sent CREDIT_UPDATE.
\* Nothing in hub.py calls it, so it is a step of no thread
credit_clients ==
    LET room == DEFAULT_CREDIT - Len(host_queue)
        waiting == {c \in clients : stores_credit(credit[c], 0)}
    IN /\ room >= 2
       /\ credit' = [c \in Peripherals |->
                       IF c \in waiting THEN update_credit(credit[c], room, 0)
                       ELSE credit[c]]
       /\ ucast' = [c \in Peripherals |->
                      IF c \in waiting THEN Append(ucast[c], CreditUpdate(room))
                      ELSE ucast[c]]
       /\ UNCHANGED <<syncVars, hubVars, device_queue, srvVars, hostVars,
                      recvVars, sendVars, resp_from, count, pending_sio_command, monitor_event, bufVars,
                      expire_time, now, latest, s_exp, s_skip>>

\* the registered clients whose deadline has not passed at time t
Unexpired(t) == {c \in clients : ~expired(c, t)}

\* NetSIOServer.send_to_all: t = time.time(), then every registered client is sent
\* the datagram unless c.expired(t); if one was skipped, expire_clients follows
SenderSendAll ==
    /\ s_pc = "send"
    /\ srv_sn' = (1 + srv_sn) % 256
    /\ net' = IF Unexpired(now) = {} THEN net
              ELSE Append(net, [dst |-> Unexpired(now), msg |-> Datagram(s_msg)])
    /\ s_msg' = NoMsg
    /\ s_skip' = clients \ Unexpired(now)
    /\ s_pc' = IF clients \ Unexpired(now) = {} THEN "get" ELSE "expire"
    /\ UNCHANGED <<syncVars, hubVars, device_queue, clients, hostVars,
                   recvVars, resp_from, count, pending_sio_command, monitor_event, bufVars,
                   credit, expire_time, now, ucast, latest, s_exp>>

\* NetSIOServer.expire_clients: t = time.time() and, under the clients lock, the
\* list of the registered clients that are expired at t
SenderExpire ==
    /\ s_pc = "expire"
    /\ s_exp' = clients \ Unexpired(now)
    /\ s_pc' = "dereg"
    /\ UNCHANGED <<syncVars, hubVars, device_queue, srvVars, hostVars,
                   recvVars, s_msg, resp_from, count, pending_sio_command, monitor_event, bufVars,
                   credit, expire_time, now, ucast, latest, s_skip>>

\* a deregister_client that reports the disconnect whether or not it found a
\* record to remove
SenderDeregister_always(c) ==
    /\ s_pc = "dereg"
    /\ c \in s_exp
    /\ s_exp' = s_exp \ {c}
    /\ clients' = clients \ {c}
    /\ s_skip' = s_skip \ {c}
    /\ s_pc' = "exp_hdm"
    /\ UNCHANGED <<syncVars, hubVars, device_queue, srv_sn, net, hostVars,
                   recvVars, s_msg, resp_from, count, pending_sio_command, monitor_event, bufVars,
                   credit, expire_time, now, ucast, latest>>

\* expire_clients: deregister_client(c.address, expired=True) for the next client
\* of the list: the record registered for the address is popped, if there is
\* one, and DEVICE_DISCONNECT is reported to the hub
SenderDeregister(c) ==
    /\ s_pc = "dereg"
    /\ c \in s_exp
    /\ s_exp' = s_exp \ {c}
    /\ clients' = clients \ {c}
    /\ s_skip' = s_skip \ {c}
    /\ s_pc' = IF c \in clients THEN "exp_hdm" ELSE "dereg"
    /\ UNCHANGED <<syncVars, hubVars, device_queue, srv_sn, net, hostVars,
                   recvVars, s_msg, resp_from, count, pending_sio_command, monitor_event, bufVars,
                   credit, expire_time, now, ucast, latest>>

\* handle_device_msg(NetSIOMsg(NETSIO_DEVICE_DISCONNECT)) in the sender thread:
\* if not self.host_ready.is_set(): return; a DEVICE_DISCONNECT is neither a
\* response nor discarded, whatever check_request returns
SenderHdmHostReady ==
    /\ s_pc = "exp_hdm"
    /\ s_pc' = IF host_ready THEN "exp_put" ELSE "dereg"
    /\ UNCHANGED <<syncVars, hubVars, device_queue, srvVars, clientVars, hostVars,
                   recvVars, s_msg, resp_from, count, pending_sio_command, monitor_event, bufVars>>

\* handle_device_msg in the sender thread: self.host_queue.put(msg), which blocks
\* while the queue is full
SenderHdmPut ==
    /\ s_pc = "exp_put"
    /\ Len(host_queue) < HOST_QUEUE_SIZE
    /\ host_queue' = Append(host_queue, NetSIOMsg(NETSIO_DEVICE_DISCONNECT, <<>>))
    /\ s_pc' = "dereg"
    /\ UNCHANGED <<syncVars, host_ready, device_queue, srvVars, clientVars, hostVars,
                   recvVars, s_msg, resp_from, count, pending_sio_command, monitor_event, bufVars>>

\* expire_clients has gone through its list: send_to_all returns
SenderExpired ==
    /\ s_pc = "dereg"
    /\ s_exp = {}
    /\ s_skip' = {}
    /\ s_pc' = "get"
    /\ UNCHANGED <<syncVars, hubVars, device_queue, srvVars, hostVars,
                   recvVars, s_msg, resp_from, count, pending_sio_command, monitor_event, bufVars,
                   credit, expire_time, now, ucast, latest, s_exp>>

\* the steps of the sender thread inside expire_clients
SenderExpireStep ==
    \/ SenderExpire
    \/ \E c \in Peripherals : SenderDeregister(c)
    \/ SenderHdmHostReady
    \/ SenderHdmPut
    \/ SenderExpired

\* time passes: time.time() is d seconds later.  An address whose client record
\* was made or refreshed by a CONNECT, and whose deadline is now in the past, has
\* lapsed
Advance(d) ==
    /\ now + d <= MaxTime
    /\ now' = now + d
    /\ latest' = [c \in Peripherals |->
                    IF latest[c] = "connect" /\ expire_time[c] < now + d
                    THEN "lapsed" ELSE latest[c]]
    /\ UNCHANGED <<syncVars, hubVars, device_queue, srvVars, hostVars,
                   recvVars, sendVars, resp_from, count, pending_sio_command, monitor_event, bufVars,
                   credit, expire_time, ucast, s_exp, s_skip>>

\* NetSIOServer.send_to_all when sock.sendto raises for one of the clients: the
\* clients that come before it in the list have been sent the datagram, those
\* after it have not; nothing catches the exception and NetOutThread.run ends
SenderSendError ==
    /\ s_pc = "send"
    /\ \E c \in Unexpired(now) : \E before \in SUBSET (Unexpired(now) \ {c}) :
          net' = IF before = {} THEN net
                 ELSE Append(net, [dst |-> before, msg |-> Datagram(s_msg)])
    /\ srv_sn' = (1 + srv_sn) % 256
    /\ s_msg' = NoMsg
    /\ s_pc' = "dead"
    /\ UNCHANGED <<syncVars, hubVars, device_queue, clients, hostVars,
                   recvVars, resp_from, count, pending_sio_command, monitor_event, bufVars, clientVars>>

SenderStep ==
    \/ SenderGet
    \/ SenderSendAll

(***************************************************************************)
(* Host sender thread: AtDevThread.run, started by AtDevHandler.handle and *)
(* stopped when the host connection ends.                                  *)
(***************************************************************************)

\* AtDevThread.run: msg = self.queue.get(timeout=1.0/50), then the message is sent
AtDevThreadGet ==
    /\ h_pc \notin {"detached", "join"}
    /\ host_queue /= <<>>
    /\ host_queue' = Tail(host_queue)
    /\ UNCHANGED <<syncVars, host_ready, device_queue, srvVars, clientVars, hostVars,
                   recvVars, sendVars, resp_from, count, pending_sio_command, monitor_event, bufVars>>

\* AtDevThread.run with the stop flag set: the thread leaves the loop, either at
\* once (it was between two get() calls, or get() timed out) or after the get()
\* it was blocked in has taken one more item; join() in AtDevThread.stop then
\* returns and AtDevHandler.handle ends
AtDevThreadExit ==
    /\ h_pc = "join"
    /\ \/ host_queue' = host_queue
       \/ host_queue /= <<>> /\ host_queue' = Tail(host_queue)
    /\ h_pc' = "detached"
    /\ UNCHANGED <<syncVars, host_ready, device_queue, srvVars, clientVars, h_msg, h_sn,
                   h_result, h_how, recvVars, sendVars, resp_from, count, pending_sio_command, monitor_event, bufVars>>

\* ---------------------------------------------------------------------------
\* The refactored hub (hub_refactored.py, device_manager.py).  The host handler
\* thread calls handle_host_msg and handle_host_msg_sync one after the other;
\* the peripheral side registers clients and hands their messages to to_host.
\* The names of the protocol module resolve as its definitions say; the branch
\* of handle_peripheral_msg for acknowledgements compares against identifiers
\* no module of the repository defines and is left out.
\* ---------------------------------------------------------------------------

\* ATDEV_NAK_RESPONSE of netsio_protocol.py
ATDEV_NAK_RESPONSE == 143

\* the events the emulator sends to handle_host_msg: the pieces of a command,
\* a block of another length, a data byte and a reset
RefactoredAsyncMsgs ==
    { NetSIOMsg(NETSIO_COMMAND_ON, <<49>>),
      NetSIOMsg(NETSIO_DATA_BLOCK, <<83, 1, 0>>),
      NetSIOMsg(NETSIO_DATA_BLOCK, <<83, 1>>),
      NetSIOMsg(NETSIO_DATA_BYTE, <<65>>),
      NetSIOMsg(NETSIO_WARM_RESET, << >>) }

\* the events given to handle_host_msg_sync: COMMAND_OFF_SYNC with and without
\* the checksum byte, DATA_BYTE_SYNC, and a DATA_BLOCK issued as synchronous
RefactoredSyncMsgs ==
    { NetSIOMsg(NETSIO_COMMAND_OFF_SYNC, <<132>>),
      NetSIOMsg(NETSIO_COMMAND_OFF_SYNC, << >>),
      NetSIOMsg(NETSIO_DATA_BYTE_SYNC, <<65>>),
      NetSIOMsg(NETSIO_DATA_BLOCK, <<83, 1, 0>>) }

\* the states of the reconstruction buffer: only a device id, and device id,
\* command, aux1 and aux2
HAVE_DEVICE == Len(pending_sio_command) = 1

HAVE_FRAME == Len(pending_sio_command) = 4

\* a to_peripheral that hands a DATA_BLOCK on only while a command is being
\* reconstructed
Refactored_to_peripheral_insequence(msg) ==
    net' = IF msg.id = NETSIO_DATA_BLOCK /\ pending_sio_command = NoCommand
           THEN net
           ELSE Append(net, [dst |-> clients, msg |-> msg])

\* NetSIOManager.to_peripheral of device_manager.py: the message object is handed
\* to client.send of every client registered at the time of the call (none, when
\* no peripheral is registered); an error of one client is caught
Refactored_to_peripheral(msg) ==
    net' = Append(net, [dst |-> clients, msg |-> msg])

\* NetSIOHub.register_host_handler
Refactored_register_host_handler ==
    /\ h_pc = "detached"
    /\ host_ready' = TRUE
    /\ host_queue' = clear_queue(host_queue)
    /\ h_pc' = "idle"
    /\ UNCHANGED <<syncVars, device_queue, srvVars, clientVars, h_msg, h_sn,
                   h_result, h_how, recvVars, sendVars, resp_from, count,
                   pending_sio_command, monitor_event, bufVars>>

\* handle_peripheral_msg for NETSIO_HELLO: NetSIOManager.register_peripheral
Refactored_register_peripheral(c) ==
    /\ clients' = clients \cup {c}
    /\ UNCHANGED <<syncVars, hubVars, device_queue, srv_sn, net, clientVars,
                   hostVars, recvVars, sendVars, resp_from, count,
                   pending_sio_command, monitor_event, bufVars>>

\* NetSIOManager.unregister_peripheral
Refactored_unregister_peripheral(c) ==
    /\ c \in clients
    /\ clients' = clients \ {c}
    /\ UNCHANGED <<syncVars, hubVars, device_queue, srv_sn, net, clientVars,
                   hostVars, recvVars, sendVars, resp_from, count,
                   pending_sio_command, monitor_event, bufVars>>

\* handle_peripheral_msg for any other message of a peripheral: NetSIOHub.to_host
\* puts it on the host queue when a host handler is registered
Refactored_to_host(m, budget) ==
    /\ count < budget
    /\ count' = count + 1
    /\ host_queue' = IF host_ready THEN Append(host_queue, m) ELSE host_queue
    /\ UNCHANGED <<syncVars, host_ready, device_queue, srvVars, clientVars,
                   hostVars, recvVars, sendVars, resp_from,
                   pending_sio_command, monitor_event, bufVars>>

\* handle_host_msg, the reconstruction: COMMAND_ON stores the device id whatever
\* is pending; a DATA_BLOCK of three bytes after the device id extends it to
\* four items; every other case leaves no command pending
PendingAfter(p, m) ==
    IF m.id = NETSIO_COMMAND_ON
    THEN <<m.arg[1]>>
    ELSE IF m.id = NETSIO_DATA_BLOCK /\ Len(p) = 1 /\ Len(m.arg) = 3
         THEN p \o m.arg
         ELSE NoCommand

\* NetSIOHub.handle_host_msg of the refactored hub: every path ends in one call
\* of device_manager.to_peripheral(msg)
Refactored_handle_host_msg(m, budget) ==
    /\ h_pc = "idle"
    /\ count < budget
    /\ count' = count + 1
    /\ pending_sio_command' = PendingAfter(pending_sio_command, m)
    /\ Refactored_to_peripheral(m)
    /\ h_msg' = m
    /\ h_how' = "async"
    /\ UNCHANGED <<syncVars, hubVars, device_queue, clients, srv_sn, clientVars,
                   h_pc, h_sn, h_result, recvVars, sendVars, resp_from, bufVars,
                   monitor_event>>

\* a default that is the empty indicator for every event
RefactoredDefault_empty(m) == ATDEV_EMPTY_SYNC

\* the value get_response returns when the wait times out: ATDEV_NAK_RESPONSE
\* for COMMAND_OFF_SYNC, ATDEV_EMPTY_SYNC for DATA_BYTE_SYNC
RefactoredDefault(m) ==
    IF m.id = NETSIO_COMMAND_OFF_SYNC THEN ATDEV_NAK_RESPONSE ELSE ATDEV_EMPTY_SYNC

\* a handle_host_msg_sync that takes a COMMAND_OFF_SYNC in any state
RefactoredRequests_anystate(m) ==
    \/ m.id = NETSIO_COMMAND_OFF_SYNC /\ Len(m.arg) > 0
    \/ m.id = NETSIO_DATA_BYTE_SYNC

\* handle_host_msg_sync allocates a request for a COMMAND_OFF_SYNC that carries a
\* checksum and finds four items pending, and for every DATA_BYTE_SYNC
RefactoredRequests(m) ==
    \/ m.id = NETSIO_COMMAND_OFF_SYNC /\ HAVE_FRAME /\ Len(m.arg) > 0
    \/ m.id = NETSIO_DATA_BYTE_SYNC

\* NetSIOHub.handle_host_msg_sync of the refactored hub, up to set_request; the
\* paths without a request return ATDEV_NAK_RESPONSE at once; DATA_BYTE_SYNC and
\* an unhandled event leave the pending command as it is
Refactored_handle_host_msg_sync(m, budget) ==
    /\ h_pc = "idle"
    /\ count < budget
    /\ count' = count + 1
    /\ pending_sio_command' = IF m.id = NETSIO_COMMAND_OFF_SYNC
                              THEN NoCommand
                              ELSE pending_sio_command
    /\ IF RefactoredRequests(m)
       THEN /\ set_request(m.id)
            /\ h_sn' = sn'
            /\ h_msg' = m
            /\ h_pc' = "ref_clear"
            /\ UNCHANGED <<h_result, h_how>>
       ELSE /\ h_result' = ATDEV_NAK_RESPONSE
            /\ h_how' = "nak"
            /\ h_msg' = m
            /\ UNCHANGED <<syncVars, h_pc, h_sn>>
    /\ UNCHANGED <<hubVars, device_queue, srvVars, clientVars, recvVars,
                   sendVars, resp_from, bufVars, monitor_event>>

\* handle_host_msg_sync: clear_queue(self.host_queue)
RefactoredClearQueue ==
    /\ h_pc = "ref_clear"
    /\ host_queue' = clear_queue(host_queue)
    /\ h_pc' = "ref_connected"
    /\ UNCHANGED <<syncVars, host_ready, device_queue, srvVars, clientVars,
                   h_msg, h_sn, h_result, h_how, recvVars, sendVars, resp_from,
                   count, pending_sio_command, monitor_event, bufVars>>

\* handle_host_msg_sync: without a peripheral the request is completed with the
\* default of the event, otherwise the event is handed on as it arrived
RefactoredConnected ==
    /\ h_pc = "ref_connected"
    /\ IF connected
       THEN /\ Refactored_to_peripheral(h_msg)
            /\ UNCHANGED <<syncVars, resp_from>>
       ELSE /\ set_response(RefactoredDefault(h_msg), h_sn)
            /\ resp_from' = "hub"
            /\ UNCHANGED net
    /\ h_pc' = "ref_wait"
    /\ UNCHANGED <<hubVars, device_queue, clients, srv_sn, clientVars, h_msg,
                   h_sn, h_result, h_how, recvVars, sendVars, count,
                   pending_sio_command, monitor_event, bufVars>>

\* handle_host_msg_sync: self.sync.get_response(sync_tmout, default) returns the
\* response when the request was completed and the default when the wait times
\* out; either way the request is cleared
RefactoredGetResponse ==
    /\ h_pc = "ref_wait"
    /\ request' = None
    /\ h_result' = IF completed THEN response ELSE RefactoredDefault(h_msg)
    /\ h_how' = IF completed THEN "response" ELSE "timeout"
    /\ h_sn' = None
    /\ h_pc' = "idle"
    /\ UNCHANGED <<sn, response, completed, resp_sn, hubVars, device_queue,
                   srvVars, clientVars, h_msg, recvVars, sendVars, resp_from,
                   count, pending_sio_command, monitor_event, bufVars>>

(***************************************************************************)
(* Specifications.                                                         *)
(***************************************************************************)

\* the synchronous request path: the host attaches, issues synchronous events and
\* detaches, the peripherals register and answer
Next ==
    \/ HostConnected
    \/ HostDisconnected
    \/ AtDevThreadStop
    \/ AtDevThreadExit
    \/ \E m \in HostSyncMsgs : HostSyncStart(m, MaxEvents)
    \/ HostSyncStep
    \/ \E c \in Peripherals : RecvConnect(c)
    \/ \E c \in Peripherals : \E m \in SyncResponses : RecvData(c, m, MaxEvents)
    \/ RecvStep
    \/ AtDevThreadGet

Spec == Init /\ [][Next]_vars

\* the same with the DATA_BLOCK path of handle_host_msg_sync, started after 254
\* synchronous requests, so that the serial number wraps
NextWrap ==
    \/ Next
    \/ HostSyncStart(HostSyncBlock, MaxEvents)
    \/ HostSyncBlockPut

SpecWrap == InitAt(254) /\ [][NextWrap]_vars

\* the host side with the UDP sender: the host issues asynchronous and synchronous
\* events, the peripherals register and send nothing else
NextHost ==
    \/ HostConnected
    \/ \E m \in HostAsyncMsgs : HostAsyncStart(m, MaxEvents)
    \/ HostAsyncPut
    \/ \E m \in HostSyncMsgs \cup {HostSyncBlock} : HostSyncStart(m, MaxEvents)
    \/ HostSyncBlockPut
    \/ HostSyncStep
    \/ \E c \in Peripherals : RecvConnect(c)
    \/ HdmHostReady
    \/ HdmCheckRequest
    \/ HdmPut
    \/ SenderStep
    \/ AtDevThreadGet

SpecHost == Init /\ [][NextHost]_vars

\* the synchronous request path with responses of sampled content
NextPack ==
    \/ HostConnected
    \/ HostSyncStart(NetSIOMsg(NETSIO_COMMAND_OFF_SYNC, <<83>>), MaxPackEvents)
    \/ HostSyncStep
    \/ RecvConnect("p1")
    \/ \E m \in PackResponses : RecvData("p1", m, MaxPackEvents)
    \/ RecvStep
    \/ AtDevThreadGet

SpecPack == Init /\ [][NextPack]_vars

\* a DATA_BLOCK event of a peripheral; it carries one byte, so that it differs
\* from the blocks the buffer makes, which carry at least two
PeripheralBlock(b) == NetSIOMsg(NETSIO_DATA_BLOCK, <<b>>)

\* the peripheral's data path with a synchronous request: a registered peripheral
\* sends DATA_BYTE events, DATA_BLOCK events and SYNC_RESPONSE events, each byte
\* and block numbered by its place in the run, while the host issues
\* COMMAND_OFF_SYNC events and the buffer monitor runs
NextBuf ==
    \/ HostConnected
    \/ HostSyncStart(NetSIOMsg(NETSIO_COMMAND_OFF_SYNC, <<83>>), MaxEvents)
    \/ HostSyncStep
    \/ RecvConnect("p1")
    \/ RecvByte("p1", count + 1, MaxEvents)
    \/ RecvData("p1", PeripheralBlock(count + 1), MaxEvents)
    \/ \E m \in SyncResponses : RecvData("p1", m, MaxEvents)
    \/ RecvSetDelay
    \/ RecvStep
    \/ Tick
    \/ MonStep
    \/ AtDevThreadGet

SpecBuf == Init /\ [][NextBuf]_vars

\* the peripheral's data path with the host attached and no synchronous request:
\* a registered peripheral sends numbered DATA_BYTE and DATA_BLOCK events to the
\* attached host, the buffer monitor runs, and nothing takes from the host queue
NextRace ==
    \/ HostConnected
    \/ RecvConnect("p1")
    \/ host_ready /\ RecvByte("p1", count + 1, MaxEvents)
    \/ host_ready /\ RecvData("p1", PeripheralBlock(count + 1), MaxEvents)
    \/ RecvSetDelay
    \/ HdmHostReady
    \/ HdmCheckRequest
    \/ HdmPut
    \/ Tick
    \/ MonStep

SpecRace == Init /\ [][NextRace]_vars

\* a burst that fills the buffer once and leaves up to MaxEvents bytes behind
BurstBytes == BUFFER_SIZE + MaxEvents

\* a burst of numbered single-byte DATA_BYTE events to the attached host, during
\* whose first BUFFER_SIZE + 1 bytes no time passes
NextBurst ==
    \/ HostConnected
    \/ RecvConnect("p1")
    \/ host_ready /\ RecvByte("p1", count + 1, BurstBytes)
    \/ RecvFlush
    \/ RecvSetDelay
    \/ HdmHostReady
    \/ HdmCheckRequest
    \/ HdmPut
    \/ count > BUFFER_SIZE /\ Tick
    \/ MonStep

SpecBurst == Init /\ [][NextBurst]_vars

\* enough events of the peripheral to fill the host queue and have one more
FullEvents == HOST_QUEUE_SIZE + 1

\* a registered peripheral sending DATA_BLOCK events to the attached host, whose
\* sender thread takes them from the host queue when it comes to it
NextFull ==
    \/ HostConnected
    \/ RecvConnect("p1")
    \/ RecvData("p1", PeripheralBlock(count + 1), FullEvents)
    \/ HdmHostReady
    \/ HdmCheckRequest
    \/ HdmPut
    \/ AtDevThreadGet

SpecFull == Init /\ [][NextFull]_vars

\* the host issuing asynchronous events and resets, with the UDP sender
NextReset ==
    \/ HostConnected
    \/ \E m \in HostAsyncMsgs \cup HostResets : HostAsyncStart(m, MaxEvents)
    \/ HostAsyncPut
    \/ RecvConnect("p1")
    \/ HdmHostReady
    \/ HdmCheckRequest
    \/ HdmPut
    \/ SenderStep
    \/ AtDevThreadGet

SpecReset == Init /\ [][NextReset]_vars

\* enough synchronous requests to fill the device queue behind a sender that has
\* taken one message
LiveEvents == DEVICE_QUEUE_SIZE + 2

\* the host issuing COMMAND_OFF_SYNC events to a registered peripheral that never
\* answers, with a sender whose sendto may raise
NextLive ==
    \/ HostConnected
    \/ HostSyncStart(NetSIOMsg(NETSIO_COMMAND_OFF_SYNC, <<83>>), LiveEvents)
    \/ HostSyncStep
    \/ RecvConnect("p1")
    \/ HdmHostReady
    \/ HdmCheckRequest
    \/ HdmPut
    \/ SenderStep
    \/ SenderSendError
    \/ AtDevThreadGet

\* every thread that can take a step eventually takes one
SpecLive ==
    /\ Init /\ [][NextLive]_vars
    /\ WF_vars(HostSyncStep)
    /\ WF_vars(HdmHostReady \/ HdmCheckRequest \/ HdmPut)
    /\ WF_vars(SenderStep)
    /\ WF_vars(AtDevThreadGet)

\* the host issuing resets between synchronous events, with a peripheral that
\* answers them and the UDP sender
NextResetSync ==
    \/ HostConnected
    \/ \E m \in HostResets : HostAsyncStart(m, MaxEvents)
    \/ HostAsyncPut
    \/ \E m \in HostSyncMsgs : HostSyncStart(m, MaxEvents)
    \/ HostSyncStep
    \/ RecvConnect("p1")
    \/ \E m \in SyncResponses : RecvData("p1", m, MaxEvents)
    \/ RecvStep
    \/ SenderStep
    \/ AtDevThreadGet

SpecResetSync == Init /\ [][NextResetSync]_vars

\* the time that passes between two looks at the clock: an alive interval, or a
\* second more
TimeSteps == {ALIVE_EXPIRATION, ALIVE_EXPIRATION + 1}

\* the client table: peripherals register, register again, send data events and
\* ALIVE_REQUEST, and disconnect, while time passes, the host issues COMMAND_ON
\* events and the UDP sender broadcasts them and sweeps the expired clients
NextClients ==
    \/ HostConnected
    \/ HostAsyncStart(NetSIOMsg(NETSIO_COMMAND_ON, <<>>), MaxEvents)
    \/ HostAsyncPut
    \/ \E c \in Peripherals : RecvConnect(c)
    \/ \E c \in Peripherals : RecvReconnect(c, MaxEvents)
    \/ \E c \in Peripherals : RecvDisconnect(c, MaxEvents)
    \/ \E c \in Peripherals : RecvAlive(c, <<>>, MaxEvents)
    \/ \E c \in Peripherals : RecvData(c, PeripheralBlock(count + 1), MaxEvents)
    \/ \E c \in Peripherals : RecvExpired(c, PeripheralBlock(count + 1), MaxEvents)
    \/ HdmHostReady
    \/ HdmCheckRequest
    \/ HdmPut
    \/ SenderStep
    \/ SenderExpireStep
    \/ \E d \in TimeSteps : Advance(d)

SpecClients == Init /\ [][NextClients]_vars

\* the credit bytes a peripheral announces in CREDIT_STATUS
CreditBytes == {0, 1, 255}

\* the payloads of ALIVE_REQUEST: none, or a credit byte
AliveArgs == {<<>>, <<0>>, <<200>>}

\* the credit and expiry bookkeeping of one client: a peripheral registers,
\* registers again, announces its credit, sends ALIVE_REQUEST and DATA_BLOCK events
\* and disconnects, while time passes and the host sender thread drains the host
\* queue
NextCredit ==
    \/ HostConnected
    \/ RecvConnect("p1")
    \/ RecvReconnect("p1", MaxEvents)
    \/ RecvDisconnect("p1", MaxEvents)
    \/ \E b \in CreditBytes : RecvCreditStatus("p1", b, MaxEvents)
    \/ \E a \in AliveArgs : RecvAlive("p1", a, MaxEvents)
    \/ RecvData("p1", PeripheralBlock(count + 1), MaxEvents)
    \/ RecvExpired("p1", PeripheralBlock(count + 1), MaxEvents)
    \/ HdmHostReady
    \/ HdmCheckRequest
    \/ HdmPut
    \/ \E d \in TimeSteps : Advance(d)
    \/ AtDevThreadGet

SpecCredit == Init /\ [][NextCredit]_vars

\* the broadcast with a sender whose sendto may raise: the host issues COMMAND_ON
\* events to two registered peripherals
NextSendError ==
    \/ HostConnected
    \/ HostAsyncStart(NetSIOMsg(NETSIO_COMMAND_ON, <<49>>), MaxEvents)
    \/ HostAsyncPut
    \/ \E c \in Peripherals : RecvConnect(c)
    \/ HdmHostReady
    \/ HdmCheckRequest
    \/ HdmPut
    \/ SenderStep
    \/ SenderSendError
    \/ AtDevThreadGet

SpecSendError == Init /\ [][NextSendError]_vars


\* The refactored hub: the host sends the pieces of commands in and out of
\* sequence while peripherals register, unregister and send messages for the host.
NextRefactored ==
    \/ Refactored_register_host_handler
    \/ Refactored_register_peripheral("p1")
    \/ Refactored_unregister_peripheral("p1")
    \/ Refactored_to_host(NetSIOMsg(NETSIO_DATA_BYTE, <<66>>), MaxRefEvents)
    \/ \E m \in RefactoredAsyncMsgs : Refactored_handle_host_msg(m, MaxRefEvents)
    \/ \E m \in RefactoredSyncMsgs : Refactored_handle_host_msg_sync(m, MaxRefEvents)
    \/ RefactoredClearQueue
    \/ RefactoredConnected
    \/ RefactoredGetResponse

SpecRefactored == Init /\ [][NextRefactored]_vars


\* the monitor thread has been started by NetInBuffer.__init__ and has not yet
\* reached its first wait
InitHandshake == InitFrom(0, "start")

\* a registered peripheral sends single bytes while the monitor thread starts,
\* waits, times out and flushes to the attached host, whose sender thread takes
\* the messages from the host queue
NextHandshake ==
    \/ HostConnected
    \/ RecvConnect("p1")
    \/ RecvByte("p1", count + 1, MaxEvents)
    \/ SetDelayNotify
    \/ SetDelayReturn
    \/ HdmHostReady
    \/ HdmCheckRequest
    \/ HdmPut
    \/ Tick
    \/ MonitorStart
    \/ MonitorWake
    \/ MonitorTimeout
    \/ MonitorExpired
    \/ MonHostReady
    \/ MonCheckRequest
    \/ MonPut
    \/ AtDevThreadGet

\* every thread that can take a step eventually takes one, and time passes
SpecHandshake ==
    /\ InitHandshake /\ [][NextHandshake]_vars
    /\ WF_vars(SetDelayStep)
    /\ WF_vars(HdmHostReady \/ HdmCheckRequest \/ HdmPut)
    /\ WF_vars(MonitorStep)
    /\ WF_vars(Tick)
    /\ WF_vars(AtDevThreadGet)


\* one peripheral that registers, goes silent or disconnects, and a second
\* address that only sends DEVICE_DISCONNECT, with the host's events driving the
\* sweep of the sender
NextDeregister ==
    \/ HostConnected
    \/ HostAsyncStart(NetSIOMsg(NETSIO_COMMAND_ON, <<>>), MaxEvents)
    \/ HostAsyncPut
    \/ RecvConnect("p1")
    \/ \E c \in Peripherals : RecvDisconnect(c, MaxEvents)
    \/ RecvExpired("p1", PeripheralBlock(count + 1), MaxEvents)
    \/ HdmHostReady
    \/ HdmCheckRequest
    \/ HdmPut
    \/ SenderStep
    \/ SenderExpireStep
    \/ \E d \in TimeSteps : Advance(d)

SpecDeregister == Init /\ [][NextDeregister]_vars

(***************************************************************************)
(* Properties of the SyncRequest slot.                                     *)
(***************************************************************************)

\* the steps of the receiver thread inside handle_device_msg: each one moves r_pc
RecvMoves == r_pc /= "idle" /\ r_pc' /= r_pc

\* handle_host_msg_sync allocates a request
AllocatesRequest == h_pc = "idle" /\ h_pc' = "clear_queue"

\* C1: a set_response whose serial number is not the current one, or that finds no
\* request pending, leaves the pending request, the stored response and the
\* completion flag as they are; and the receiver handling a SYNC_RESPONSE whose
\* first byte is not the current serial number never changes them
C1_StaleResponseLeavesSlot ==
    [][ /\ (r_pc = "set_response" /\ RecvMoves /\ (request = None \/ r_sn /= sn))
            => UNCHANGED <<request, response, completed>>
        /\ (RecvMoves /\ r_dgram.id = NETSIO_SYNC_RESPONSE /\ r_dgram.arg[1] /= sn)
            => UNCHANGED <<request, response, completed>> ]_vars

\* a set_response was dropped and a newer request is pending
C1_Witness == r_how = "dropped" /\ r_pc = "idle" /\ request /= None /\ sn = 2

\* C2: set_request sets the serial number to the previous one plus one modulo 256,
\* stores the request kind, clears the completion flag and returns the serial number
\* it stored; no other step changes the serial number
C2_SerialNumber ==
    [][ /\ AllocatesRequest =>
              /\ sn' = (sn + 1) % 256
              /\ request' = h_msg'.id
              /\ completed' = FALSE
              /\ h_sn' = sn'
        /\ (sn' /= sn) => AllocatesRequest ]_vars

\* the serial number has wrapped from 255 to 0 and was returned to the caller
C2_Witness == sn = 0 /\ h_sn = 0 /\ request = NETSIO_COMMAND_OFF_SYNC /\ ~completed

\* C3: the slot holds no pending request when handle_host_msg_sync allocates one,
\* and none while the host thread is outside handle_host_msg_sync
C3_OneInFlight ==
    /\ [](h_pc \in {"idle", "detached"} => request = None)
    /\ [][AllocatesRequest => request = None]_vars

\* a second request is allocated after the first one timed out
C3_Witness == h_pc = "clear_queue" /\ h_how = "timeout" /\ request /= None /\ sn = 2

\* C4: get_response returns the response accepted for the current request when the
\* completion was signalled in time, never one stored for an earlier request, and
\* the default otherwise; the request is cleared either way
C4_GetResponse ==
    [][ /\ (h_pc = "get_response" /\ h_pc' = "got") => completed
        /\ (h_pc = "get_response" /\ h_pc' = "timedout") => ~completed
        /\ (h_pc = "got" /\ h_pc' = "idle") =>
              h_result' = response /\ resp_sn = h_sn /\ request' = None
        /\ (h_pc = "timedout" /\ h_pc' = "idle") =>
              h_result' = ATDEV_EMPTY_SYNC /\ request' = None ]_vars

\* the second request returned the response a peripheral gave to it
C4_Witness ==
    /\ h_pc = "idle" /\ h_how = "response" /\ h_result = 16769
    /\ resp_from \in Peripherals /\ resp_sn = 2 /\ sn = 2

\* the datagram in the receiver's hands is a SYNC_RESPONSE for the request whose
\* handle_host_msg_sync call has returned by timeout
LateResponse ==
    /\ h_pc = "idle" /\ h_how = "timeout"
    /\ r_dgram.id = NETSIO_SYNC_RESPONSE /\ r_dgram.arg[1] = sn

\* what handle_device_msg puts on the host queue for an unconsumed SYNC_RESPONSE
Unconsumed(dgram) ==
    IF dgram.arg[2] = NETSIO_EMPTY_SYNC THEN dgram
    ELSE NetSIOMsg(NETSIO_DATA_BYTE, <<dgram.arg[3]>>)

\* C5 (as stated): a timed out handle_host_msg_sync returns the empty indicator, and
\* a SYNC_RESPONSE for that request handled after the timeout completes no request,
\* changes no sync result and is not put on the host queue
C5_LateResponseDiscarded ==
    [][ /\ (h_pc = "timedout" /\ h_pc' = "idle") => h_result' = ATDEV_EMPTY_SYNC
        /\ (RecvMoves /\ LateResponse) =>
              /\ UNCHANGED <<request, response, completed, h_result>>
              /\ host_queue' = host_queue ]_vars

\* C5 (amended): a timed out handle_host_msg_sync returns the empty indicator, and
\* a SYNC_RESPONSE for that request handled after the call has returned completes no
\* request and changes no sync result, but the router does not discard it: it finds
\* no request pending and puts the response on the host queue, as a DATA_BYTE with
\* the ACK byte when the response is not empty, unchanged when it is empty
C5_LateResponseQueued ==
    [][ /\ (h_pc = "timedout" /\ h_pc' = "idle") => h_result' = ATDEV_EMPTY_SYNC
        /\ (RecvMoves /\ LateResponse) =>
              UNCHANGED <<request, response, completed, h_result>>
        /\ (RecvMoves /\ LateResponse /\ r_pc = "check_request") => r_pc' = "put"
        /\ (RecvMoves /\ LateResponse /\ r_pc = "put") =>
              host_queue' = Append(host_queue, Unconsumed(r_dgram)) ]_vars

\* the only request timed out and its late response is on the host queue as a
\* DATA_BYTE
C5_Witness ==
    /\ h_pc = "idle" /\ h_how = "timeout" /\ sn = 1 /\ request = None
    /\ r_pc = "idle" /\ r_how = "queued"
    /\ r_dgram.id = NETSIO_SYNC_RESPONSE /\ r_dgram.arg[1] = sn
    /\ host_queue = <<NetSIOMsg(NETSIO_DATA_BYTE, <<65>>)>>

\* the datagram in the receiver's hands is a SYNC_RESPONSE for the request that
\* another peripheral's response has completed
SecondResponse ==
    /\ r_dgram.id = NETSIO_SYNC_RESPONSE /\ r_dgram.arg[1] = sn
    /\ resp_sn = sn /\ resp_from \in Peripherals /\ r_client /= resp_from

\* C6 (as stated): of two peripherals' responses to the same request the first one
\* gives the result returned to the host, and the second one changes nothing and
\* puts nothing on the host queue
C6_SecondResponseDropped ==
    [][ /\ (h_pc = "got" /\ h_pc' = "idle" /\ resp_from \in Peripherals) =>
              h_result' = response
        /\ (RecvMoves /\ SecondResponse) =>
              /\ UNCHANGED <<request, response, completed, resp_from, h_result>>
              /\ host_queue' = host_queue ]_vars

\* C6 (amended): of two peripherals' responses to the same request the first one
\* gives the result returned to the host; the second one does not change it, but it
\* is not dropped: it is put on the host queue, as a DATA_BYTE with the ACK byte
\* when it is not empty, unchanged when it is empty
C6_SecondResponseQueued ==
    [][ /\ (h_pc = "got" /\ h_pc' = "idle" /\ resp_from \in Peripherals) =>
              h_result' = response
        /\ (RecvMoves /\ SecondResponse) =>
              UNCHANGED <<request, response, completed, resp_from, h_result>>
        /\ (RecvMoves /\ SecondResponse /\ r_pc = "check_request") => r_pc' = "put"
        /\ (RecvMoves /\ SecondResponse /\ r_pc = "put") =>
              host_queue' = Append(host_queue, Unconsumed(r_dgram)) ]_vars

\* the host got the first peripheral's response and the second peripheral's
\* response to the same request is on the host queue as a DATA_BYTE
C6_Witness ==
    /\ h_pc = "idle" /\ h_how = "response" /\ h_result = response /\ sn = 1
    /\ resp_sn = sn /\ resp_from \in Peripherals
    /\ r_pc = "idle" /\ r_how = "queued" /\ r_client \in Peripherals \ {resp_from}
    /\ r_dgram.id = NETSIO_SYNC_RESPONSE /\ r_dgram.arg[1] = sn
    /\ host_queue = <<NetSIOMsg(NETSIO_DATA_BYTE, <<65>>)>>

(***************************************************************************)
(* Properties of handle_host_msg_sync and the broadcast.                   *)
(***************************************************************************)

\* C7: every handle_host_msg_sync call returns, whatever the state of the device
\* queue and of the sender thread, when every thread that can step does step
C7_SyncCallTerminates == (h_pc \notin {"idle", "detached"}) ~> (h_pc = "idle")

\* the sender thread has ended, the device queue is full and the host thread is in
\* to_peripheral's put
C7_Witness ==
    h_pc = "forward" /\ Len(device_queue) = DEVICE_QUEUE_SIZE /\ s_pc = "dead"

\* the hub's own set_response completed the current request
ShortcutTaken == resp_from = "hub" /\ resp_sn = h_sn

\* C8: with no peripheral registered a DATA_BYTE_SYNC or COMMAND_OFF_SYNC is
\* completed by the hub itself with the empty indicator and returns it without
\* running into the timeout, and no datagram is sent
C8_NoPeripheral ==
    /\ [][ /\ (h_pc = "connected" /\ h_pc' /= h_pc /\ clients = {}) => h_pc' = "shortcut"
           /\ (h_pc = "shortcut" /\ h_pc' /= h_pc) =>
                 completed' /\ response' = ATDEV_EMPTY_SYNC /\ request' = None
           /\ (h_pc = "got" /\ h_pc' = "idle") => h_result' = response
           /\ (clients = {}) => net' = net ]_vars
    /\ [](h_pc \in {"get_response", "got", "timedout"} /\ ShortcutTaken =>
            completed /\ response = ATDEV_EMPTY_SYNC /\ h_pc /= "timedout")

\* COMMAND_ON, DATA_BLOCK and a synchronous request have been handled with no
\* peripheral registered: the sender took two messages and sent nothing, the
\* request returned the empty indicator set by the hub
C8_Witness ==
    /\ count = 3 /\ clients = {} /\ h_pc = "idle" /\ h_how = "response"
    /\ h_result = ATDEV_EMPTY_SYNC /\ resp_from = "hub" /\ resp_sn = 1 /\ sn = 1
    /\ device_queue = <<>> /\ s_pc = "get" /\ srv_sn = 2 /\ net = <<>>

\* C9: the datagram broadcast for a DATA_BYTE_SYNC or COMMAND_OFF_SYNC is the host
\* message's argument followed by exactly one byte, a serial number set_request
\* has allocated
C9_OneAppendedByte ==
    \A i \in DOMAIN net :
        net[i].msg.id \in {NETSIO_DATA_BYTE_SYNC, NETSIO_COMMAND_OFF_SYNC} =>
            \E m \in HostSyncMsgs : \E s \in 1..sn :
                net[i].msg = NetSIOMsg(m.id, Append(m.arg, s))

\* the first COMMAND_OFF_SYNC went out with two bytes after the checksum: the
\* request's serial number and the server's own counter
C9_Witness ==
    /\ Len(net) = 1 /\ net[1].dst /= {}
    /\ net[1].msg = NetSIOMsg(NETSIO_COMMAND_OFF_SYNC, <<83, 1, 0>>)

\* the packed result in arithmetic
PackedResult(arg) ==
    IF arg[2] = NETSIO_EMPTY_SYNC THEN ATDEV_EMPTY_SYNC
    ELSE 129 + arg[3] * 256 + arg[4] * 65536 + arg[5] * 16777216

RecvExamines == r_pc = "check_request" /\ r_pc' /= "check_request"

\* the monitor's handle_device_msg call examines the request slot
MonExamines == m_pc = "check_request" /\ m_pc' /= "check_request"

\* C11: a DATA_BYTE or DATA_BLOCK, received or made by a flush of the buffer, that
\* handle_device_msg examines while a request is pending is discarded: the call
\* returns and the host queue stays as it is; any other message examined then that
\* is not the response to the pending request goes on to the put, which appends it
\* to the host queue (a SYNC_RESPONSE with a byte inside as a DATA_BYTE)
C11_DataDiscardedDuringRequest ==
    [][ /\ (RecvExamines /\ request /= None
                /\ r_msg.id \in {NETSIO_DATA_BYTE, NETSIO_DATA_BLOCK}) =>
              /\ host_queue' = host_queue
              /\ r_how' = "discarded"
              /\ r_pc' \in {"idle", "hdm"}
              /\ r_msg' \in {NoMsg, r_dgram}
        /\ (MonExamines /\ request /= None) =>
              host_queue' = host_queue /\ m_pc' = "wait" /\ m_msg' = NoMsg
        /\ (RecvExamines /\ request /= None
                /\ r_msg.id \notin {NETSIO_DATA_BYTE, NETSIO_DATA_BLOCK}
                /\ ~(r_msg.id = NETSIO_SYNC_RESPONSE /\ r_msg.arg[1] = sn)) =>
              /\ r_pc' = "put"
              /\ r_msg' = IF r_msg.id = NETSIO_SYNC_RESPONSE
                          THEN Unconsumed(r_msg) ELSE r_msg
        /\ (r_pc = "put" /\ r_pc' /= "put") =>
              host_queue' = Append(host_queue, r_msg) ]_vars

\* during the first request the peripheral's DEVICE_CONNECT was put on the host
\* queue, and a byte it sent, flushed ahead of its DATA_BLOCK, and the DATA_BLOCK
\* were discarded
C11_Witness ==
    /\ request /= None /\ sn = 1 /\ h_pc = "get_response" /\ count = 3
    /\ host_queue = <<NetSIOMsg(NETSIO_DEVICE_CONNECT, <<>>)>>
    /\ r_pc = "idle" /\ r_how = "discarded" /\ r_dgram = PeripheralBlock(3)
    /\ data = <<>> /\ m_pc = "armed"

\* the payloads of the messages of a queue, concatenated
RECURSIVE Payloads(_)
Payloads(q) == IF q = <<>> THEN <<>> ELSE Head(q).arg \o Payloads(Tail(q))

\* a message the buffer made: a DATA_BYTE, or a DATA_BLOCK of at least two bytes
IsCoalesced(m) ==
    m.id = NETSIO_DATA_BYTE \/ (m.id = NETSIO_DATA_BLOCK /\ Len(m.arg) > 1)

\* the DATA_BLOCK events of the peripheral in a queue
IsEvent(m) == m.id = NETSIO_DATA_BLOCK /\ Len(m.arg) = 1

\* the bytes of DATA_BYTE events on the host queue, in queue order
QueueBytes == Payloads(SelectSeq(host_queue, IsCoalesced))

Increasing(q) == \A i \in 1..(Len(q) - 1) : q[i] < q[i + 1]

Range(q) == { q[i] : i \in DOMAIN q }

\* the receiver waits for a datagram, the monitor waits, the buffer is empty
Quiescent == r_pc = "idle" /\ m_pc \in {"wait", "armed"} /\ data = <<>>

\* C13: the bytes of the DATA_BYTE events received with the host attached and no
\* request in flight are on the host queue in the order received, as single
\* DATA_BYTE messages or inside DATA_BLOCK messages, and once the receiver and the
\* monitor are done and the buffer is empty they are all there, each once
C13_BytesInSourceOrder ==
    /\ Increasing(QueueBytes)
    /\ Quiescent =>
          Range(QueueBytes) = (1..count) \ Range(Payloads(SelectSeq(host_queue, IsEvent)))

\* three bytes went to the host as a DATA_BYTE the monitor flushed and a DATA_BLOCK
\* it flushed later
C13_Witness ==
    /\ Quiescent /\ count = 3
    /\ SelectSeq(host_queue, IsCoalesced) =
          <<NetSIOMsg(NETSIO_DATA_BYTE, <<1>>), NetSIOMsg(NETSIO_DATA_BLOCK, <<2, 3>>)>>

\* C14: a data event other than DATA_BYTE is put on the host queue after the bytes
\* received before it: the payloads on the host queue, bytes and events alike, are
\* in the order received
C14_FlushBeforeEvent == Increasing(Payloads(host_queue))

\* the peripheral's DATA_BLOCK, received second, is on the host queue ahead of the
\* byte received first, which the monitor was flushing
C14_Witness ==
    /\ Quiescent
    /\ SelectSeq(host_queue, LAMBDA m : m.id /= NETSIO_DEVICE_CONNECT) =
          <<PeripheralBlock(2), NetSIOMsg(NETSIO_DATA_BYTE, <<1>>)>>

\* the messages a flush of the buffer has made: on the host queue, in the
\* receiver's hands, in the monitor's hands
Flushed ==
    Range(SelectSeq(host_queue, IsCoalesced))
    \cup (IF r_flush THEN {r_msg} ELSE {})
    \cup (IF m_pc \in {"hdm", "check_request", "put"} THEN {m_msg} ELSE {})

\* C15: with single-byte DATA_BYTE events and no timer expiry in between, extend
\* flushes exactly when the buffer has reached 130 bytes, so nothing is flushed
\* before the 130th byte and the first message is a DATA_BLOCK of the first 130
\* bytes; the 131st byte, flushed alone by the timer, follows as a DATA_BYTE; every
\* flushed message has 1 to 130 bytes and is a DATA_BYTE exactly when it has one
C15_FlushAtBufferSize ==
    /\ [][ (r_pc = "idle" /\ r_pc' \in {"flush", "set_delay"}) =>
              (r_pc' = "flush" <=> Len(data) + 1 = BUFFER_SIZE) ]_vars
    /\ [](LET q == SelectSeq(host_queue, IsCoalesced)
          IN /\ Len(data) <= BUFFER_SIZE
             /\ count < BUFFER_SIZE => Flushed = {}
             /\ \A m \in Flushed :
                   /\ Len(m.arg) \in 1..BUFFER_SIZE
                   /\ m.id = (IF Len(m.arg) = 1 THEN NETSIO_DATA_BYTE
                                               ELSE NETSIO_DATA_BLOCK)
             /\ q /= <<>> =>
                   q[1] = NetSIOMsg(NETSIO_DATA_BLOCK, [i \in 1..BUFFER_SIZE |-> i])
             /\ (Quiescent /\ count = BUFFER_SIZE + 1) =>
                   q = << NetSIOMsg(NETSIO_DATA_BLOCK, [i \in 1..BUFFER_SIZE |-> i]),
                          NetSIOMsg(NETSIO_DATA_BYTE, <<BUFFER_SIZE + 1>>) >>)

\* after a burst of 131 bytes the host queue holds a DATA_BLOCK of 130 bytes and
\* the DATA_BYTE the timer flushed
C15_Witness ==
    /\ Quiescent /\ count = 131 /\ m_pc = "wait"
    /\ Len(host_queue) = 3
    /\ host_queue[2].id = NETSIO_DATA_BLOCK /\ Len(host_queue[2].arg) = 130
    /\ host_queue[3] = NetSIOMsg(NETSIO_DATA_BYTE, <<131>>)

\* C16: a buffered byte is flushed no later than 5 ms after the first unflushed
\* byte was queued: the buffer never holds a byte that was queued more than
\* BUFFER_MAX_AGE ticks ago
C16_FlushedWithinMaxAge == data /= <<>> => age <= BUFFER_MAX_AGE

\* two bytes are buffered, the first for 8 ms: the second byte came 4 ms after
\* the first and the timeout has been running again since
C16_Witness ==
    /\ data = <<1, 2>> /\ age = 8 /\ m_pc = "armed" /\ t_left = 1 /\ r_pc = "idle"

\* C17: while no host is attached the host queue is empty: host_disconnected
\* leaves it empty and nothing is put on it until the next host_connected
C17_EmptyWhileDetached == ~host_ready => host_queue = <<>>

\* the host connection has ended, the host sender thread has taken the None of its
\* stop and ended, and a peripheral's message that had passed the host_ready test
\* before the disconnect is on the host queue
C17_Witness ==
    /\ ~host_ready /\ h_pc = "detached"
    /\ r_pc = "idle" /\ r_how = "queued"
    /\ host_queue = <<NetSIOMsg(NETSIO_DATA_BYTE, <<65>>)>>

\* C18: handle_device_msg never waits on the host queue: whenever the receiver is
\* at the put, full queue or not, it can complete the call
C18_ReceiverNeverSuspended == r_pc = "put" => ENABLED HdmPut

\* the host queue holds 8 messages and the receiver is inside host_queue.put with
\* the ninth
C18_Witness ==
    /\ host_ready /\ r_pc = "put" /\ r_msg = PeripheralBlock(HOST_QUEUE_SIZE + 1)
    /\ host_queue = [i \in 1..HOST_QUEUE_SIZE |-> PeripheralBlock(i)]

(***************************************************************************)
(* Properties of the host-to-peripheral path.                              *)
(***************************************************************************)

\* a sequence without its last element
Front(q) == SubSeq(q, 1, Len(q) - 1)

\* the messages on their way to the peripherals, oldest first: those broadcast
\* (the counter byte send_to_all appended left aside), the one in the sender's
\* hands and those in the device queue
Pipeline ==
    [i \in 1..Len(net) |-> NetSIOMsg(net[i].msg.id, Front(net[i].msg.arg))]
    \o (IF s_pc = "send" THEN <<s_msg>> ELSE <<>>)
    \o device_queue

\* the host thread completes a to_peripheral call
HostEnqueues == h_pc \in {"async_put", "syncblk_put", "forward"} /\ h_pc' /= h_pc

\* C12: datagrams are broadcast in the order the host events were put on the device
\* queue, each once: a host event joins the messages on their way at the end, the
\* sender moves the oldest queued message to the broadcast ones, and nothing else
\* changes them, except that a message dequeued with no peripheral registered is
\* not sent
C12_BroadcastOrder ==
    [][ /\ HostEnqueues => Pipeline' = Append(Pipeline, h_msg)
        /\ (~HostEnqueues /\ ~(s_pc = "send" /\ clients = {})) => Pipeline' = Pipeline
        /\ (s_pc = "send" /\ s_pc' /= s_pc /\ clients /= {}) =>
              /\ Len(net') = Len(net) + 1
              /\ net'[Len(net')].dst = clients
              /\ net'[Len(net')].msg.id = s_msg.id
        /\ (s_pc = "send" /\ s_pc' /= s_pc /\ clients = {}) => net' = net ]_vars

\* a registered peripheral was sent COMMAND_ON, DATA_BLOCK [0x53, 0, 0] and
\* COMMAND_OFF_SYNC, three datagrams in the order the host issued the events
C12_Witness ==
    /\ Len(net) = 3 /\ device_queue = <<>> /\ s_pc = "get"
    /\ \A i \in 1..3 : net[i].dst /= {}
    /\ net[1].msg.id = NETSIO_COMMAND_ON
    /\ net[2].msg.id = NETSIO_DATA_BLOCK /\ SubSeq(net[2].msg.arg, 1, 3) = <<83, 0, 0>>
    /\ net[3].msg.id = NETSIO_COMMAND_OFF_SYNC

\* C19: to_peripheral never makes the host thread wait on the device queue:
\* whenever the host thread is at a to_peripheral call, full queue or not, it can
\* complete the call
C19_ProducerNeverBlocked ==
    h_pc \in {"async_put", "syncblk_put", "forward"} =>
        ENABLED (HostAsyncPut \/ HostSyncBlockPut \/ HostForward)

\* the device queue holds 16 messages and the host thread is inside
\* device_queue.put with one more
C19_Witness ==
    /\ h_pc = "forward" /\ Len(device_queue) = DEVICE_QUEUE_SIZE
    /\ h_msg.id = NETSIO_COMMAND_OFF_SYNC /\ s_pc = "get"

\* the ids of the reset events
ResetIds == {NETSIO_COLD_RESET, NETSIO_WARM_RESET}

\* C20: a COLD_RESET or WARM_RESET of the host removes every message queued for
\* the peripherals and is then the only queued message; a queued reset is always
\* at the head of the queue, so it is the next message the sender takes, and the
\* sender broadcasts what it took to the registered peripherals
C20_ResetFlushesQueue ==
    /\ [][ /\ (h_pc = "async_put" /\ h_pc' /= h_pc /\ h_msg.id \in ResetIds) =>
                 device_queue' = <<h_msg>>
           /\ (s_pc = "get" /\ s_pc' = "send") => s_msg' = Head(device_queue)
           /\ (s_pc = "send" /\ s_pc' = "get" /\ clients /= {}) =>
                 /\ Len(net') = Len(net) + 1
                 /\ net'[Len(net')].msg.id = s_msg.id
                 /\ net'[Len(net')].dst = clients ]_vars
    /\ [](\A i \in DOMAIN device_queue : device_queue[i].id \in ResetIds => i = 1)

\* the host issued two events and a COLD_RESET; the sender took one message only,
\* the reset, and broadcast it
C20_Witness ==
    /\ count = 3 /\ h_pc = "idle" /\ device_queue = <<>> /\ s_pc = "get"
    /\ srv_sn = 1 /\ Len(net) = 1
    /\ net[1].msg.id = NETSIO_COLD_RESET /\ net[1].dst = {"p1"}

(***************************************************************************)
(* Properties of resets, of the host connection and of the client table.   *)
(***************************************************************************)

\* handle_host_msg returns from forwarding a reset
HandlesReset == h_pc = "async_put" /\ h_pc' /= h_pc /\ h_msg.id \in ResetIds

Disconnects == h_pc = "idle" /\ h_pc' = "stop"

C23_ConnectedIsRegistered ==
    \A c \in Peripherals : latest[c] = "connect" => c \in clients

\* the sender's sweep popped the record of an address after the receiver handled
\* its CONNECT: the deadline the CONNECT set has not passed, the client was sent
\* CREDIT_UPDATE twice, and the table has no record for it
C23_Witness ==
    /\ latest["p1"] = "connect" /\ ~expired("p1", now) /\ Len(ucast["p1"]) = 2
    /\ "p1" \notin clients
    /\ s_pc = "get" /\ r_pc = "idle"

(***************************************************************************)
(* Properties of credit and expiry.                                        *)
(***************************************************************************)

\* the receiver takes a DEVICE_CONNECT and register_client runs
HandlesConnect ==
    r_pc = "idle" /\ r_pc' = "hdm" /\ r_dgram'.id = NETSIO_DEVICE_CONNECT

\* C24: after a CONNECT, first or repeated, the address has a record in the client
\* table with its deadline an alive interval from now, the stored credit is
\* DEFAULT_CREDIT, and exactly one datagram was sent to the client for it, a
\* CREDIT_UPDATE carrying DEFAULT_CREDIT
C24_ConnectGrantsDefaultCredit ==
    [][ HandlesConnect =>
          /\ r_client' \in clients'
          /\ expire_time'[r_client'] = now + ALIVE_EXPIRATION
          /\ credit'[r_client'] = DEFAULT_CREDIT
          /\ ucast'[r_client'] =
                Append(ucast[r_client'], CreditUpdate(DEFAULT_CREDIT)) ]_vars

\* a repeated CONNECT was handled and CREDIT_UPDATE [3] sent for it, and the
\* record holds the credit 1 the client announced before
C24_Witness ==
    /\ r_pc = "idle" /\ r_dgram.id = NETSIO_DEVICE_CONNECT /\ "p1" \in clients
    /\ Len(ucast["p1"]) = 2
    /\ ucast["p1"][2] = CreditUpdate(DEFAULT_CREDIT)
    /\ credit["p1"] = 1

\* C25: the credit stored for a client is between 0 and DEFAULT_CREDIT
C25_CreditWithinDefault ==
    \A c \in Peripherals : 0 <= credit[c] /\ credit[c] <= DEFAULT_CREDIT

\* the client announced the credit 255 in a CREDIT_STATUS and the record holds it
C25_Witness ==
    /\ r_pc = "idle" /\ r_dgram = NetSIOMsg(NETSIO_CREDIT_STATUS, <<255>>)
    /\ "p1" \in clients /\ credit["p1"] = 255

\* a message is put on the host queue
EnqueuesForHost == Len(host_queue') > Len(host_queue)

\* C26: every put on the host queue is followed at once by a recomputation of the
\* credit as DEFAULT_CREDIT minus the queue's size: each registered client whose
\* stored credit is below a new value of at least 2 is sent a CREDIT_UPDATE with
\* the new value, and its record holds it
C26_EnqueueRecomputesCredit ==
    [][ EnqueuesForHost =>
          \A c \in clients :
             LET room == DEFAULT_CREDIT - Len(host_queue')
             IN (room >= 2 /\ room > credit[c]) =>
                   /\ credit'[c] = room
                   /\ ucast'[c] = Append(ucast[c], CreditUpdate(room)) ]_vars

\* a DATA_BLOCK of the client was put on the empty host queue; the record still
\* holds the credit 1 the client announced, and the only datagram sent to the
\* client is the CREDIT_UPDATE of its CONNECT
C26_Witness ==
    /\ r_pc = "idle" /\ r_how = "queued" /\ r_dgram.id = NETSIO_DATA_BLOCK
    /\ Len(host_queue) = 1 /\ "p1" \in clients
    /\ credit["p1"] = 1
    /\ ucast["p1"] = <<CreditUpdate(DEFAULT_CREDIT)>>

\* the receiver takes a datagram of a registered client whose deadline has not
\* passed, and the client stays registered
ReceivesFromLive ==
    /\ r_pc = "idle" /\ count' = count + 1
    /\ r_client' \in clients /\ ~expired(r_client', now)
    /\ r_client' \in clients'

\* C27: every datagram received from a registered client whose deadline has not
\* passed, a data event, a CREDIT_STATUS, an ALIVE_REQUEST or a repeated CONNECT,
\* sets the client's deadline to the time of receipt plus ALIVE_EXPIRATION
C27_EveryMessageRefreshes ==
    [][ ReceivesFromLive =>
          expire_time'[r_client'] = now + ALIVE_EXPIRATION ]_vars

\* a CREDIT_STATUS was received 20 seconds after the CONNECT, on the deadline, and
\* the deadline is where the CONNECT put it
C27_Witness ==
    /\ r_pc = "idle" /\ r_dgram.id = NETSIO_CREDIT_STATUS /\ "p1" \in clients
    /\ now = ALIVE_EXPIRATION /\ expire_time["p1"] = ALIVE_EXPIRATION

\* send_to_all goes through the clients
Broadcasts == s_pc = "send" /\ s_pc' \in {"get", "expire"}

\* send_to_all returns
BroadcastEnds == s_pc \in {"send", "dereg"} /\ s_pc' = "get"

\* C28: a broadcast sends the datagram to the registered clients whose deadline has
\* not passed and to no other; when it ends, every client it skipped because its
\* deadline had passed has been deregistered; and whenever a record is taken out
\* of the table, DEVICE_DISCONNECT is handed to the hub's handle_device_msg
C28_BroadcastSweepsExpired ==
    [][ /\ Broadcasts =>
              LET live == {c \in clients : expire_time[c] >= now}
              IN /\ live = {} => net' = net
                 /\ live /= {} =>
                       /\ Len(net') = Len(net) + 1
                       /\ net'[Len(net')].dst = live
                 /\ s_skip' = clients \ live
        /\ BroadcastEnds => s_skip' = {} /\ (s_pc = "dereg" => s_skip = {})
        /\ \A c \in clients \ clients' :
              \/ s_pc' = "exp_hdm"
              \/ r_pc' = "hdm" /\ r_msg'.id = NETSIO_DEVICE_DISCONNECT ]_vars

\* the broadcast skipped a client whose deadline had passed, expire_clients has
\* gone through its list, and the client is registered, its deadline refreshed by
\* an ALIVE_REQUEST in between
C28_Witness ==
    /\ s_pc = "dereg" /\ s_exp = {} /\ s_skip = {"p1"}
    /\ "p1" \in clients /\ ~expired("p1", now)
    /\ r_pc = "idle" /\ r_dgram.id = NETSIO_ALIVE_REQUEST /\ r_client = "p1"

\* the clients the step sent a datagram to
SentTo == IF net' = net THEN {} ELSE net'[Len(net')].dst

\* C29: when send_to_all leaves its loop over the clients, with a send error or
\* without, the datagram has gone to every registered client whose deadline has
\* not passed except at most one, the one whose send failed; and the sender thread
\* is alive, so that it takes the next message from the device queue
C29_SendErrorIsContained ==
    /\ [][ (s_pc = "send" /\ s_pc' /= "send" /\ Unexpired(now) /= {}) =>
              \E c \in Unexpired(now) :
                 SentTo \in {Unexpired(now), Unexpired(now) \ {c}} ]_vars
    /\ [](s_pc /= "dead")

\* sendto raised for the first of two registered clients: the other one was not
\* sent the datagram, the sender thread has ended and the host's next event stays
\* in the device queue
C29_Witness ==
    /\ s_pc = "dead" /\ clients = Peripherals /\ net = <<>> /\ srv_sn = 1
    /\ Len(device_queue) = 1 /\ h_pc = "idle"

\* the ids of the events that carry a synchronous request
SyncIds == {NETSIO_DATA_BYTE_SYNC, NETSIO_COMMAND_OFF_SYNC}

\* C30: the datagram broadcast for an asynchronous host event, a reset included,
\* is the host's message, its event id and its argument bytes with nothing after
\* them
C30_AsyncBroadcastVerbatim ==
    \A i \in DOMAIN net :
        net[i].msg.id \notin SyncIds =>
            net[i].msg \in HostAsyncMsgs \cup HostResets

\* the host's COMMAND_ON [49] went out to the registered peripheral with the
\* server's counter byte after its argument
C30_Witness ==
    /\ Len(net) = 1 /\ net[1].dst = {"p1"}
    /\ net[1].msg = NetSIOMsg(NETSIO_COMMAND_ON, <<49, 0>>)


(***************************************************************************)
(* Properties of the refactored hub.                                       *)
(***************************************************************************)

\* the host handler thread calls handle_host_msg or handle_host_msg_sync with
\* the event h_msg'
RefHostCall ==
    /\ h_pc = "idle" /\ count' = count + 1
    /\ host_queue' = host_queue

\* the call is one of handle_host_msg
RefAsyncCall == RefHostCall /\ h_pc' = "idle" /\ h_how' = "async"

\* the event of the call is the next piece of the command being reconstructed
RefInSequence ==
    \/ h_msg'.id = NETSIO_COMMAND_ON /\ pending_sio_command = NoCommand
    \/ RefAsyncCall /\ h_msg'.id = NETSIO_DATA_BLOCK /\ Len(h_msg'.arg) = 3
                    /\ HAVE_DEVICE
    \/ ~RefAsyncCall /\ h_msg'.id = NETSIO_COMMAND_OFF_SYNC /\ HAVE_FRAME

\* C31: a host event that is not the next piece of the command being
\* reconstructed leaves no command pending
C31_OutOfSequenceResets ==
    [][ RefHostCall /\ ~RefInSequence => pending_sio_command' = NoCommand ]_vars

\* a DATA_BYTE_SYNC was taken between the DATA_BLOCK and the COMMAND_OFF_SYNC and
\* the frame is still pending
C31_Witness ==
    /\ HAVE_FRAME
    /\ h_msg.id = NETSIO_DATA_BYTE_SYNC
    /\ h_pc = "ref_clear"

RefNoPeripheral ==
    /\ h_pc = "ref_connected" /\ h_pc' = "ref_wait"
    /\ clients = {}

\* get_response returns after a wait that timed out
RefTimesOut ==
    /\ h_pc = "ref_wait" /\ h_pc' = "idle"
    /\ ~completed

RefExpected == IF h_msg.id = NETSIO_COMMAND_OFF_SYNC
               THEN ATDEV_NAK_RESPONSE
               ELSE ATDEV_EMPTY_SYNC

RequestDrained ==
    /\ h_pc \in {"connected", "shortcut", "forward", "get_response",
                 "got", "timedout"}
    /\ request /= None

\* C35: from the moment handle_host_msg_sync has allocated the request and cleared
\* the host queue until the request completes, the host queue holds no DATA_BYTE
\* and no DATA_BLOCK, whatever the receiver and the buffer monitor were doing
C35_NoStaleByteDuringRequest ==
    RequestDrained =>
        \A i \in 1..Len(host_queue) :
            host_queue[i].id \notin {NETSIO_DATA_BYTE, NETSIO_DATA_BLOCK}

\* a DATA_BYTE of the peripheral is on the host queue while the request waits for
\* its response
C35_Witness ==
    /\ h_pc = "get_response" /\ request = NETSIO_COMMAND_OFF_SYNC
    /\ ~completed
    /\ Len(host_queue) = 1 /\ host_queue[1].id = NETSIO_DATA_BYTE


\* the receiver takes a CREDIT_STATUS datagram of client r_client' announcing the
\* credit r_dgram'.arg[1]
ReceivesCreditStatus ==
    /\ r_pc = "idle" /\ count' = count + 1
    /\ r_dgram'.id = NETSIO_CREDIT_STATUS

\* C36: a CREDIT_STATUS of a registered client stores the announced credit, and
\* when the announced credit is at most 10 and DEFAULT_CREDIT minus the size of the
\* host queue is at least 2, a CREDIT_UPDATE with that value is sent and stored;
\* a CREDIT_STATUS from an unregistered address changes and sends nothing
C36_CreditStatusTopsUp ==
    [][ ReceivesCreditStatus =>
          LET c == r_client'
              b == r_dgram'.arg[1]
              room == DEFAULT_CREDIT - Len(host_queue)
          IN IF c \notin clients
             THEN UNCHANGED <<credit, ucast, clients>>
             ELSE IF b <= 10 /\ room >= 2
             THEN /\ credit'[c] = room
                  /\ ucast'[c] = Append(ucast[c], CreditUpdate(room))
             ELSE /\ credit'[c] = b
                  /\ UNCHANGED ucast ]_vars

\* the client announced a credit of 1 with the host queue empty: the 1 is stored
\* and nothing but the CREDIT_UPDATE of the registration was ever sent to it
C36_Witness ==
    /\ "p1" \in clients
    /\ r_dgram = NetSIOMsg(NETSIO_CREDIT_STATUS, <<1>>)
    /\ host_queue = <<>>
    /\ credit["p1"] = 1
    /\ Len(ucast["p1"]) <= 1



\* a flush takes all the buffered bytes, in order, into one message and leaves
\* the buffer empty; the buffer loses bytes in no other way
FlushTakesAll ==
    [][ data' /= data /\ Len(data') <= Len(data) =>
          /\ data' = <<>>
          /\ \/ m_msg' = FlushMsg(data) /\ m_pc' = "hdm"
             \/ r_msg' = FlushMsg(data) /\ r_pc' = "hdm" ]_vars

\* C37: every byte passed to extend is eventually handed to handle_device_msg, in
\* exactly one flushed message that leaves the buffer empty
C37_EveryByteFlushedOnce ==
    /\ FlushTakesAll
    /\ (data /= <<>>) ~> (data = <<>>)

\* the first byte is in the buffer, no timeout is running and neither the
\* receiver nor the monitor can take a step
C37_Witness ==
    /\ Len(data) = 1
    /\ m_pc = "wait" /\ t_left = 0
    /\ r_pc = "event_wait" /\ ~monitor_event
    /\ host_ready

\* C38: every call of set_delay returns: the receiver that has entered set_delay
\* eventually leaves it
C38_SetDelayReturns ==
    (r_pc \in {"set_delay", "event_wait"}) ~> (r_pc = "idle")

\* set_delay notified before the monitor thread reached its first wait: the
\* monitor now waits for a notification and the receiver for monitor_event
C38_Witness ==
    /\ r_pc = "event_wait" /\ ~monitor_event
    /\ m_pc = "wait"
    /\ data /= <<>>


\* the receiver thread starts reporting DEVICE_DISCONNECT to the hub
RecvReports ==
    /\ r_pc = "idle" /\ r_pc' = "hdm"
    /\ r_msg' = NetSIOMsg(NETSIO_DEVICE_DISCONNECT, <<>>)

\* the sender thread, inside expire_clients, starts reporting DEVICE_DISCONNECT
SenderReports == s_pc = "dereg" /\ s_pc' = "exp_hdm"

\* C39: every removal of a client record takes one record and is reported by the
\* thread that took it, by that thread alone, and a DEVICE_DISCONNECT is reported
\* only by a step that took a record: a deregistration that finds no record for
\* the address, in the receiver or in the sweep of the sender, reports nothing
\* and leaves the table as it is
C39_DisconnectOncePerRegistration ==
    /\ [][ clients' /= clients /\ clients' \subseteq clients =>
             /\ Cardinality(clients \ clients') = 1
             /\ RecvReports /= SenderReports ]_vars
    /\ [][ RecvReports \/ SenderReports =>
             Cardinality(clients \ clients') = 1 ]_vars
    /\ [][ /\ r_pc = "idle" /\ count' = count + 1
           /\ r_dgram'.id = NETSIO_DEVICE_DISCONNECT
           /\ r_client' \notin clients
           => UNCHANGED <<clients, r_pc, host_queue>> ]_vars

\* the sweep of the sender is about to deregister a client that the receiver has
\* already removed and is reporting
C39_Witness ==
    /\ s_pc = "dereg" /\ "p1" \in s_exp
    /\ "p1" \notin clients
    /\ r_pc = "hdm" /\ r_client = "p1"
    /\ r_msg = NetSIOMsg(NETSIO_DEVICE_DISCONNECT, <<>>)

====
